---- MODULE Spec2Model ----
(***************************************************************************)
(* Agent delegation and workflow orchestration core of the ADK IDE:        *)
(* SequentialAgent, LoopAgent and ParallelAgent (agents/workflow.py, the   *)
(* manual execution path taken when no ADK workflow agent was built), the  *)
(* delegation protocol (agents/base.py, AgentCommunication) and the        *)
(* session-state logs (services/session_state.py, ADKIDESessionState), the  *)
(* Code Execution Agent (agents/cea.py), the orchestrator's run            *)
(* (agents/hia.py) behind the security callbacks (security/callbacks.py)   *)
(* and the two ways into it: the HTTP handlers (main.py) and the WebSocket *)
(* handler (websocket/handler.py).                                         *)
(*                                                                         *)
(* Every await of a sub-agent's run is a suspension point, so each         *)
(* orchestrator is cut into steps at its awaits: the step that starts a    *)
(* sub-agent and the step that resumes with its outcome.  A sub-agent is   *)
(* an opaque capability: its outcome is chosen nondeterministically.       *)
(***************************************************************************)
EXTENDS Integers, Sequences, FiniteSets, TLC

VARIABLES seq, loop, par, deleg, cea, http, ws, da, ext, dbg, runs

vars == <<seq, loop, par, deleg, cea, http, ws, da, ext, dbg, runs>>

(* ---------------------------- bounds ----------------------------------- *)

\* longest sub-agent list given to a workflow agent
MaxAgents == 3
\* largest max_iterations given to a LoopAgent
MaxIter == 3
\* most sub-agent invocations a LoopAgent.run can make: the LoopAgents taken
\* have len(sub_agents) * max_iterations within this
MaxLoopInvocations == 9

(* ------------------------- shared notions ------------------------------ *)

\* sub-agents are told apart by their position in the declared list; the
\* i-th sub-agent's name is AgentName(i)
AgentName(i) == i

\* value of a field that is not (yet) set
None == "none"

NoCalls == [i \in 1..MaxAgents |-> 0]

Last(s) == s[Len(s)]

\* What a key of a request mapping holds: nothing (the key is absent), the
\* value the caller gave it, or something taken from the Result of the
\* at-th sub-agent invocation of the run (for previous_result that Result,
\* for state its result.get("state", {})).
AbsentKey == [from |-> "absent", at |-> 0]

CallerKey == [from |-> "caller", at |-> 0]

ResultKey(k) == [from |-> "result", at |-> k]

\* the request mappings a caller passes to run
Requests == [task : {CallerKey},
             previous_result : {AbsentKey, CallerKey},
             state : {AbsentKey, CallerKey}]

\* a request whose keys all hold the caller's values
FullRequest == [task |-> CallerKey, previous_result |-> CallerKey,
                state |-> CallerKey]

\* a reference to a mapping object: own says that run built the object
\* itself; otherwise it is the very object the caller passed in
Alias(request) == [own |-> FALSE, map |-> request]

Fresh(map) == [own |-> TRUE, map |-> map]

(***************************************************************************)
(*                           SequentialAgent                               *)
(***************************************************************************)

\* status values a sub-agent's Result may carry
SeqStatuses == {"success", "error", "blocked", "completed"}

\* a Result as SequentialAgent reads it: the status field
SeqResults == [status : SeqStatuses]

SeqInit ==
    \E n \in 0..MaxAgents, request \in Requests :
        seq = [n |-> n, pc |-> "idle", idx |-> 0, results |-> <<>>,
               request |-> request, request0 |-> request,
               current_request |-> Alias(request),
               calls |-> NoCalls, order |-> <<>>, ret |-> [status |-> None]]

\* faulty variant of SeqFailed: the pipeline stops on 'blocked' instead of 'error'
SeqFailedOnBlocked(result) == result.status = "blocked"

\* workflow.py:227  if result.get("status") == "error"
SeqFailed(result) == result.status = "error"

\* faulty variant of SeqAdvance: the for loop skips a sub-agent
SeqAdvanceSkips(idx) == idx + 2

\* workflow.py:222: the for loop goes on to the sub-agent declared next
SeqAdvance(idx) == idx + 1

\* faulty variant of SeqThread: the keys are set on the mapping in hand
SeqThreadInPlace(request, current_request, k) ==
    LET map == [current_request.map EXCEPT !.previous_result = ResultKey(k),
                                           !.state = ResultKey(k)]
    IN  [request |-> IF current_request.own THEN request ELSE map,
         current_request |-> [current_request EXCEPT !.map = map]]

\* workflow.py:236: {**current_request, "previous_result": result,
\* "state": result.get("state", {})} is a new mapping; k is the invocation
\* that returned result.  The caller's mapping and the new current_request.
SeqThread(request, current_request, k) ==
    [request |-> request,
     current_request |->
         Fresh([current_request.map EXCEPT !.previous_result = ResultKey(k),
                                           !.state = ResultKey(k)])]

\* workflow.py:219-220: current_request is the caller's mapping, the results
\* list is empty
SeqStart ==
    /\ seq.pc = "idle"
    /\ seq' = [seq EXCEPT !.pc = "for", !.idx = 1, !.results = <<>>,
                          !.current_request = Alias(seq.request)]
    /\ UNCHANGED <<loop, par, deleg, cea, http, ws, da, ext, dbg, runs>>

\* workflow.py:222-223: the for loop takes the next sub-agent and awaits
\* its run
SeqCall ==
    /\ seq.pc = "for"
    /\ seq.idx <= seq.n
    /\ seq' = [seq EXCEPT !.pc = "await",
                          !.calls[seq.idx] = @ + 1,
                          !.order = Append(@, seq.idx)]
    /\ UNCHANGED <<loop, par, deleg, cea, http, ws, da, ext, dbg, runs>>

\* workflow.py:224-236: the awaited run returned a Result
SeqReturn ==
    /\ seq.pc = "await"
    /\ \E result \in SeqResults :
         LET results == Append(seq.results,
                               [agent |-> AgentName(seq.idx), result |-> result])
         IN IF SeqFailed(result)
            THEN seq' = [seq EXCEPT !.pc = "done",
                                    !.results = results,
                                    !.ret = [status |-> "error",
                                             agent |-> "sequential_agent",
                                             failed_at |-> AgentName(seq.idx),
                                             results |-> results]]
            ELSE LET threaded == SeqThread(seq.request, seq.current_request,
                                           Len(results))
                 IN seq' = [seq EXCEPT !.pc = "for",
                                       !.idx = SeqAdvance(@),
                                       !.results = results,
                                       !.request = threaded.request,
                                       !.current_request =
                                           threaded.current_request]
    /\ UNCHANGED <<loop, par, deleg, cea, http, ws, da, ext, dbg, runs>>

\* workflow.py:223: the awaited run raised; nothing in run catches it
SeqRaise ==
    /\ seq.pc = "await"
    /\ seq' = [seq EXCEPT !.pc = "raised"]
    /\ UNCHANGED <<loop, par, deleg, cea, http, ws, da, ext, dbg, runs>>

\* workflow.py:238: the list is exhausted
SeqFinish ==
    /\ seq.pc = "for"
    /\ seq.idx > seq.n
    /\ seq' = [seq EXCEPT !.pc = "done",
                          !.ret = [status |-> "success",
                                   agent |-> "sequential_agent",
                                   results |-> seq.results]]
    /\ UNCHANGED <<loop, par, deleg, cea, http, ws, da, ext, dbg, runs>>

SeqNext == SeqStart \/ SeqCall \/ SeqReturn \/ SeqRaise \/ SeqFinish

(***************************************************************************)
(*                              LoopAgent                                  *)
(***************************************************************************)

\* shapes of a Result's event_actions entry: missing (or a dict whose
\* escalate is not True), a dict whose escalate is True, or an object that
\* is not a dict and has escalate set
EventActionsShapes == {"absent", "dict_escalate", "object_escalate"}

\* a Result as LoopAgent reads it
LoopResults == [event_actions : EventActionsShapes,
                escalate : BOOLEAN,
                terminate : BOOLEAN]

\* the request mappings given to LoopAgent.run
LoopRequests == Requests

LoopInit ==
    \E n \in 0..MaxAgents, max_iterations \in 0..MaxIter,
       request \in LoopRequests :
        /\ n * max_iterations <= MaxLoopInvocations
        /\ loop = [n |-> n, max_iterations |-> max_iterations,
                   pc |-> "idle", iteration_count |-> 0, idx |-> 0,
                   exit_requested |-> FALSE,
                   results |-> <<>>, request |-> request,
                   request0 |-> request,
                   current_request |-> Alias(request),
                   calls |-> NoCalls, ret |-> [status |-> None]]

\* workflow.py:119-120  isinstance(event_actions, dict) and
\*                      event_actions.get("escalate") is True
LoopEventEscalate(result) == result.event_actions = "dict_escalate"

\* faulty variant of LoopLegacyEscalate: only the terminate flag is read
LoopLegacyTerminateOnly(result) == result.terminate

\* workflow.py:130  result.get("escalate") is True or
\*                  result.get("terminate") is True
LoopLegacyEscalate(result) == result.escalate \/ result.terminate

\* faulty variant of LoopSignal: the exit flag is looked at before the Result
LoopSignalExitFirst(result, exit_requested) ==
    IF exit_requested THEN "exit_loop_tool"
    ELSE IF LoopEventEscalate(result) \/ LoopLegacyEscalate(result)
         THEN "escalate_signal"
         ELSE None

\* workflow.py:117-147: the three checks made on a Result, in their order;
\* None when the loop goes on
LoopSignal(result, exit_requested) ==
    IF LoopEventEscalate(result) THEN "escalate_signal"
    ELSE IF LoopLegacyEscalate(result) THEN "escalate_signal"
    ELSE IF exit_requested THEN "exit_loop_tool"
    ELSE None

\* another faulty variant of LoopContinue: one iteration too many
LoopContinueOffByOne ==
    loop.iteration_count <= loop.max_iterations /\ ~loop.exit_requested

\* faulty variant of LoopContinue: one iteration too few
LoopContinueStopsEarly ==
    loop.iteration_count < loop.max_iterations - 1 /\ ~loop.exit_requested

\* workflow.py:111  while iteration_count < self.max_iterations and
\*                  not self._exit_requested
LoopContinue ==
    loop.iteration_count < loop.max_iterations /\ ~loop.exit_requested

\* workflow.py:152
LoopFinalReason ==
    IF loop.exit_requested THEN "exit_loop_tool" ELSE "max_iterations_reached"

LoopRet(iterations, results, reason) ==
    [status |-> "completed",
     agent |-> "loop_agent",
     iterations |-> iterations,
     results |-> results,
     termination_reason |-> reason]

\* faulty variant of LoopThread: the new mapping holds nothing but
\* previous_result
LoopThreadDropsKeys(request, current_request, k) ==
    [request |-> request,
     current_request |->
         Fresh([task |-> AbsentKey, previous_result |-> ResultKey(k),
                state |-> AbsentKey])]

\* workflow.py:150: {**current_request, "previous_result": result} is a new
\* mapping; k is the invocation that returned result.  The caller's mapping
\* and the new current_request.
LoopThread(request, current_request, k) ==
    [request |-> request,
     current_request |->
         Fresh([current_request.map EXCEPT !.previous_result = ResultKey(k)])]

\* workflow.py:95-109: the exit flag is reset, the counters start at zero
LoopStart ==
    /\ loop.pc = "idle"
    /\ loop' = [loop EXCEPT !.pc = "while",
                            !.exit_requested = FALSE,
                            !.iteration_count = 0,
                            !.results = <<>>,
                            !.current_request = Alias(loop.request)]
    /\ UNCHANGED <<seq, par, deleg, cea, http, ws, da, ext, dbg, runs>>

\* workflow.py:111-112: the while condition holds, a new iteration begins
LoopIterate ==
    /\ loop.pc = "while"
    /\ LoopContinue
    /\ loop' = [loop EXCEPT !.pc = "for",
                            !.iteration_count = @ + 1,
                            !.idx = 1]
    /\ UNCHANGED <<seq, par, deleg, cea, http, ws, da, ext, dbg, runs>>

\* workflow.py:113-114: the for loop takes the next sub-agent and awaits
\* its run
LoopCall ==
    /\ loop.pc = "for"
    /\ loop.idx <= loop.n
    /\ loop' = [loop EXCEPT !.pc = "await", !.calls[loop.idx] = @ + 1]
    /\ UNCHANGED <<seq, par, deleg, cea, http, ws, da, ext, dbg, runs>>

\* workflow.py:113: the for loop is exhausted, back to the while condition
LoopEndFor ==
    /\ loop.pc = "for"
    /\ loop.idx > loop.n
    /\ loop' = [loop EXCEPT !.pc = "while"]
    /\ UNCHANGED <<seq, par, deleg, cea, http, ws, da, ext, dbg, runs>>

\* workflow.py:115-150: the awaited run returned a Result
LoopReturn ==
    /\ loop.pc = "await"
    /\ \E result \in LoopResults :
         LET results == Append(loop.results,
                               [iteration |-> loop.iteration_count,
                                agent |-> AgentName(loop.idx),
                                result |-> result])
             reason == LoopSignal(result, loop.exit_requested)
         IN IF reason # None
            THEN loop' = [loop EXCEPT
                            !.pc = "done",
                            !.results = results,
                            !.ret = LoopRet(loop.iteration_count, results, reason)]
            ELSE LET threaded == LoopThread(loop.request,
                                            loop.current_request,
                                            Len(results))
                 IN loop' = [loop EXCEPT
                               !.pc = "for",
                               !.idx = @ + 1,
                               !.results = results,
                               !.request = threaded.request,
                               !.current_request = threaded.current_request]
    /\ UNCHANGED <<seq, par, deleg, cea, http, ws, da, ext, dbg, runs>>

\* workflow.py:114: the awaited run raised; nothing in run catches it
LoopRaise ==
    /\ loop.pc = "await"
    /\ loop' = [loop EXCEPT !.pc = "raised"]
    /\ UNCHANGED <<seq, par, deleg, cea, http, ws, da, ext, dbg, runs>>

\* workflow.py:152-159: the while condition fails
LoopFinish ==
    /\ loop.pc = "while"
    /\ ~LoopContinue
    /\ loop' = [loop EXCEPT
                  !.pc = "done",
                  !.ret = LoopRet(loop.iteration_count, loop.results,
                                  LoopFinalReason)]
    /\ UNCHANGED <<seq, par, deleg, cea, http, ws, da, ext, dbg, runs>>

\* workflow.py:55 (and any holder of the agent): _exit_requested = True.
\* On one event loop other code runs only while run is suspended in an
\* await, or when no run is in progress.
ExitLoop ==
    /\ loop.pc \in {"idle", "await"}
    /\ ~loop.exit_requested
    /\ loop' = [loop EXCEPT !.exit_requested = TRUE]
    /\ UNCHANGED <<seq, par, deleg, cea, http, ws, da, ext, dbg, runs>>

LoopNext ==
    \/ LoopStart \/ LoopIterate \/ LoopCall \/ LoopEndFor
    \/ LoopReturn \/ LoopRaise \/ LoopFinish \/ ExitLoop

(***************************************************************************)
(*                            ParallelAgent                                *)
(***************************************************************************)

\* how a sub-agent's run ends: it returns a Result, raises an Exception, or
\* ends cancelled (asyncio.CancelledError, which is a BaseException)
ParOutcomes == [kind : {"return"}, status : {"success", "error"}]
               \cup {[kind |-> "raise", status |-> None],
                     [kind |-> "cancel", status |-> None]}

NoOutcome == [kind |-> None, status |-> None]

ParInit ==
    \E n \in 0..MaxAgents, request \in Requests :
        par = [n |-> n, pc |-> "idle",
               task |-> [i \in 1..MaxAgents |-> None],
               outcome |-> [i \in 1..MaxAgents |-> NoOutcome],
               request |-> request, request0 |-> request,
               passed |-> [i \in 1..MaxAgents |-> Alias(request)],
               completed |-> <<>>, calls |-> NoCalls, ret |-> [status |-> None]]

ParAgents == 1..par.n

\* faulty variant of ReturnExceptions: gather is called without return_exceptions
ReturnExceptionsOff == FALSE

\* workflow.py:299  asyncio.gather(*tasks, return_exceptions=True)
ReturnExceptions == TRUE

\* faulty variant of GatherResults: results in the order the sub-agents completed
GatherInCompletionOrder ==
    [i \in ParAgents |-> par.outcome[par.completed[i]]]

\* workflow.py:299: gather's value, one entry per awaitable, in the order the
\* awaitables were passed
GatherResults == [i \in ParAgents |-> par.outcome[i]]

\* workflow.py:303: isinstance(result, Exception); gather hands a cancelled
\* task's CancelledError over as a value, and it is no Exception
IsException(result) == result.kind = "raise"

\* workflow.py:303-306: the entry built for sub-agent i from gather's value;
\* a key the entry does not have is None
ParEntry(i, result) ==
    IF IsException(result)
    THEN [agent |-> AgentName(i), status |-> "error", result |-> None]
    ELSE [agent |-> AgentName(i), status |-> None, result |-> result]

\* faulty variant of ParStatus: a failed branch fails the whole
ParStatusFromBranches(entries) ==
    IF \E i \in DOMAIN entries :
          \/ entries[i].status = "error"
          \/ entries[i].status = None /\ entries[i].result.status = "error"
    THEN "error"
    ELSE "success"

\* workflow.py:308: the overall status does not depend on the entries
ParStatus(entries) == "success"

\* workflow.py:298-299: one coroutine per sub-agent, in declared order, all
\* handed to gather, which schedules each as a task
ParStart ==
    /\ par.pc = "idle"
    /\ par' = [par EXCEPT !.pc = "gather",
                          !.task = [i \in 1..MaxAgents |->
                                      IF i <= par.n THEN "created" ELSE None],
                          !.passed = [i \in 1..MaxAgents |->
                                        Alias(par.request)]]
    /\ UNCHANGED <<seq, loop, deleg, cea, http, ws, da, ext, dbg, runs>>

\* the event loop runs the tasks first in, first out: a sub-agent's run
\* starts once every sub-agent declared before it has started
ParAgentStart(i) ==
    /\ par.pc = "gather"
    /\ par.task[i] = "created"
    /\ \A j \in 1..(i - 1) : par.task[j] # "created"
    /\ par' = [par EXCEPT !.task[i] = "running", !.calls[i] = @ + 1]
    /\ UNCHANGED <<seq, loop, deleg, cea, http, ws, da, ext, dbg, runs>>

\* a running sub-agent ends, in any order among those running; without
\* return_exceptions the first exception would end the await at once
ParAgentDone(i) ==
    /\ par.pc = "gather"
    /\ par.task[i] = "running"
    /\ \E o \in ParOutcomes :
         IF o.kind = "raise" /\ ~ReturnExceptions
         THEN par' = [par EXCEPT !.pc = "raised",
                                 !.task[i] = "finished",
                                 !.outcome[i] = o,
                                 !.completed = Append(@, i)]
         ELSE par' = [par EXCEPT !.task[i] = "finished",
                                 !.outcome[i] = o,
                                 !.completed = Append(@, i)]
    /\ UNCHANGED <<seq, loop, deleg, cea, http, ws, da, ext, dbg, runs>>

\* workflow.py:299-308: every task has finished, the await resumes and the
\* entries are built by zipping the sub-agents with gather's value
ParCollect ==
    /\ par.pc = "gather"
    /\ \A i \in ParAgents : par.task[i] = "finished"
    /\ LET results == GatherResults
           entries == [i \in ParAgents |-> ParEntry(i, results[i])]
       IN par' = [par EXCEPT
                    !.pc = "done",
                    !.ret = [status |-> ParStatus(entries),
                             agent |-> "parallel_agent",
                             results |-> entries]]
    /\ UNCHANGED <<seq, loop, deleg, cea, http, ws, da, ext, dbg, runs>>

\* the task running ParallelAgent.run is cancelled while it awaits gather:
\* the CancelledError is raised at the await and leaves run
ParCancel ==
    /\ par.pc = "gather"
    /\ par' = [par EXCEPT !.pc = "cancelled"]
    /\ UNCHANGED <<seq, loop, deleg, cea, http, ws, da, ext, dbg, runs>>

ParNext ==
    \/ ParStart
    \/ \E i \in 1..MaxAgents : ParAgentStart(i)
    \/ \E i \in 1..MaxAgents : ParAgentDone(i)
    \/ ParCollect
    \/ ParCancel

(***************************************************************************)
(*        Delegation protocol and the session's coordination logs          *)
(***************************************************************************)

\* delegate_to_agent and transfer_to_agent calls made in one session
MaxCalls == 3
\* add_delegation calls, and add_transfer calls, made on one session state
MaxAddCalls == 52

\* session_state.py:274  if len(self.delegations) > 50
MaxDelegations == 50
\* session_state.py:292  if len(self.transfers) > 20
MaxTransfers == 20

\* the agent that delegates or transfers, and the agents it hands work to
Parent == "hia"
Targets == {"da", "cea"}

\* how the target's run ends under delegate_to_agent: it returns a Result, or
\* raises an Exception
DelegOutcomes == [kind : {"return"}, status : {"success", "error"}]
                 \cup {[kind |-> "raise", status |-> None]}

\* context.session: None ("absent"), a session whose state is a plain dict
\* that AgentCommunication writes ("adk"), or an ADKIDESessionState driven
\* through its own add_delegation / add_transfer ("ide")
SessionKinds == {"absent", "adk", "ide"}

DelegInit ==
    deleg \in [session : SessionKinds,
               pc : {"idle"},
               target : {None},
               clock : {0},
               delegations : {<<>>},
               transfers : {<<>>},
               active_agent : {None},
               stored : {[t \in Targets |-> None]},
               runs : {[t \in Targets |-> 0]},
               delegate_calls : {0},
               transfer_calls : {0},
               appended : {<<>>},
               last : {[op |-> None, target |-> None, outcome |-> NoOutcome]},
               ret : {[status |-> None]},
               add_delegation_calls : {0},
               add_transfer_calls : {0}]

HasSession == deleg.session = "adk"

\* base.py:261-267 and 280-287: the record appended to the delegations log
DelegationRecord(target, status, now) ==
    [from |-> Parent, to |-> target, status |-> status, timestamp |-> now]

\* base.py:260-261 and 279-280: setdefault("delegations", []).append(record)
DelegationLogged(log, record) == Append(log, record)

\* faulty variant of ActiveAfterTransfer: the pointer stays on the source agent
ActiveAfterTransferSource(source, target) == source

\* base.py:326  context.session.state["active_agent"] = target_agent.name
ActiveAfterTransfer(source, target) == target

\* base.py:236-248: the delegation request is built and the target is run
\* through its AgentTool; the call is suspended in the await
DelegateCall(t) ==
    /\ deleg.session \in {"absent", "adk"}
    /\ deleg.pc = "idle"
    /\ deleg.delegate_calls + deleg.transfer_calls < MaxCalls
    /\ deleg' = [deleg EXCEPT !.pc = "await",
                              !.target = t,
                              !.clock = @ + 1,
                              !.runs[t] = @ + 1,
                              !.delegate_calls = @ + 1]
    /\ UNCHANGED <<seq, loop, par, cea, http, ws, da, ext, dbg, runs>>

\* base.py:250-274: execute returned; the result is stored, a 'completed'
\* record is appended and the result is wrapped
DelegateReturn ==
    /\ deleg.pc = "await"
    /\ \E status \in {"success", "error"} :
         LET t == deleg.target
             result == [kind |-> "return", status |-> status]
             record == DelegationRecord(t, "completed", deleg.clock + 1)
             ret == [status |-> "success", result |-> result,
                     delegation_id |-> deleg.delegate_calls,
                     target_agent |-> t]
             last == [op |-> "delegate", target |-> t, outcome |-> result]
         IN IF HasSession
            THEN deleg' = [deleg EXCEPT
                             !.pc = "idle",
                             !.clock = @ + 1,
                             !.stored[t] = status,
                             !.delegations = DelegationLogged(@, record),
                             !.appended = Append(@, record),
                             !.last = last,
                             !.ret = ret]
            ELSE deleg' = [deleg EXCEPT
                             !.pc = "idle", !.last = last, !.ret = ret]
    /\ UNCHANGED <<seq, loop, par, cea, http, ws, da, ext, dbg, runs>>

\* base.py:276-293: execute raised; a 'failed' record is appended and an
\* error Result is returned
DelegateRaise ==
    /\ deleg.pc = "await"
    /\ LET t == deleg.target
           record == DelegationRecord(t, "failed", deleg.clock + 1)
           ret == [status |-> "error", result |-> None,
                   delegation_id |-> None, target_agent |-> t]
           last == [op |-> "delegate", target |-> t,
                    outcome |-> [kind |-> "raise", status |-> None]]
       IN IF HasSession
          THEN deleg' = [deleg EXCEPT
                           !.pc = "idle",
                           !.clock = @ + 1,
                           !.delegations = DelegationLogged(@, record),
                           !.appended = Append(@, record),
                           !.last = last,
                           !.ret = ret]
          ELSE deleg' = [deleg EXCEPT
                           !.pc = "idle", !.last = last, !.ret = ret]
    /\ UNCHANGED <<seq, loop, par, cea, http, ws, da, ext, dbg, runs>>

\* base.py:314-334: transfer_to_agent has no await, it runs in one step; it
\* may run while a delegation of the same session is suspended
Transfer(t) ==
    /\ deleg.session \in {"absent", "adk"}
    /\ deleg.delegate_calls + deleg.transfer_calls < MaxCalls
    /\ LET record == [from |-> Parent, to |-> t, timestamp |-> deleg.clock + 1]
           ret == [status |-> "transferred", from_agent |-> Parent,
                   to_agent |-> t]
           last == [op |-> "transfer", target |-> t, outcome |-> NoOutcome]
       IN IF HasSession
          THEN deleg' = [deleg EXCEPT
                           !.clock = @ + 1,
                           !.transfers = Append(@, record),
                           !.active_agent = ActiveAfterTransfer(Parent, t),
                           !.transfer_calls = @ + 1,
                           !.last = last,
                           !.ret = ret]
          ELSE deleg' = [deleg EXCEPT
                           !.transfer_calls = @ + 1,
                           !.last = last,
                           !.ret = ret]
    /\ UNCHANGED <<seq, loop, par, cea, http, ws, da, ext, dbg, runs>>

\* the k-th delegation, and the k-th transfer, handed to an ADKIDESessionState
NthTarget(k) == IF k % 2 = 1 THEN "da" ELSE "cea"

\* session_state.py:267-270: the record add_delegation stores for the k-th call
IdeDelegation(k) ==
    [from |-> Parent, to |-> NthTarget(k), status |-> "completed",
     timestamp |-> k]

\* session_state.py:284-287: the record add_transfer stores for the k-th call
IdeTransfer(k) ==
    [from_agent |-> Parent, to_agent |-> NthTarget(k), timestamp |-> k]

\* faulty variant of KeepLast: the newest records are dropped instead of the oldest
KeepFirst(log, limit) ==
    IF Len(log) > limit THEN SubSeq(log, 1, limit) ELSE log

\* session_state.py:274-275 and 292-293: log = log[-limit:] once it is longer
\* than limit
KeepLast(log, limit) ==
    IF Len(log) > limit THEN SubSeq(log, Len(log) - limit + 1, Len(log)) ELSE log

\* session_state.py:260-275  ADKIDESessionState.add_delegation
AddDelegation ==
    /\ deleg.session = "ide"
    /\ deleg.add_delegation_calls < MaxAddCalls
    /\ LET k == deleg.add_delegation_calls + 1
       IN deleg' = [deleg EXCEPT
                      !.add_delegation_calls = k,
                      !.delegations =
                          KeepLast(Append(@, IdeDelegation(k)), MaxDelegations)]
    /\ UNCHANGED <<seq, loop, par, cea, http, ws, da, ext, dbg, runs>>

\* session_state.py:288  self.active_agent = transfer.get("to_agent")
TransferTo(transfer) == transfer.to_agent

\* session_state.py:277-293  ADKIDESessionState.add_transfer
AddTransfer ==
    /\ deleg.session = "ide"
    /\ deleg.add_transfer_calls < MaxAddCalls
    /\ LET k == deleg.add_transfer_calls + 1
       IN deleg' = [deleg EXCEPT
                      !.add_transfer_calls = k,
                      !.transfers =
                          KeepLast(Append(@, IdeTransfer(k)), MaxTransfers),
                      !.active_agent = TransferTo(IdeTransfer(k))]
    /\ UNCHANGED <<seq, loop, par, cea, http, ws, da, ext, dbg, runs>>

DelegNext ==
    \/ \E t \in Targets : DelegateCall(t)
    \/ DelegateReturn
    \/ DelegateRaise
    \/ \E t \in Targets : Transfer(t)
    \/ AddDelegation
    \/ AddTransfer

(***************************************************************************)
(*        CodeExecutionAgent.run  (agents/cea.py)                          *)
(***************************************************************************)

\* how many requests one CodeExecutionAgent instance is given
MaxCeaRuns == 2

\* self.max_code_len
max_code_len == 100000

\* self._denylist_patterns: a pattern is the run of adjacent words that
\* re.search looks for (\bimport\s+os\b is the word "import" followed by "os")
DenylistPatterns == {<<"import", "os">>, <<"subprocess">>, <<"socket">>,
                     <<"shutil.rmtree">>}

\* the value of request.get("code"): absent (None) or a text, seen as its
\* length and the words it is made of
NoCode == [present |-> FALSE, len |-> 0, words |-> <<>>]

CodeWords == {<<"print">>, <<"import", "os">>, <<"os", "import">>,
              <<"import", "subprocess">>, <<"import", "socket">>,
              <<"shutil.rmtree">>, <<"import", "pty">>}

CodeLens == {20, max_code_len, max_code_len + 1}

Codes == {NoCode, [present |-> TRUE, len |-> 0, words |-> <<>>]}
         \cup [present : {TRUE}, len : CodeLens, words : CodeWords]

\* re.search(pattern, text)
Search(pattern, words) ==
    \E i \in 1..(Len(words) - Len(pattern) + 1) :
        SubSeq(words, i, i + Len(pattern) - 1) = pattern

\* `not code`
CodeFalsy(code) == ~code.present \/ code.len = 0

CodeTooLarge(code) == code.len > max_code_len

CodeForbidden(code) == \E p \in DenylistPatterns : Search(p, code.words)

\* faulty variant of CeaValidate: the denylist is searched before the size
\* is checked
CeaValidateDenylistFirst(code) ==
    IF CodeFalsy(code) THEN "missing 'code'"
    ELSE IF CodeForbidden(code) THEN "forbidden code pattern detected"
    ELSE IF CodeTooLarge(code) THEN "code too large"
    ELSE None

\* the checks that precede the executor: the error message, or None when the
\* code is accepted
CeaValidate(code) ==
    IF CodeFalsy(code) THEN "missing 'code'"
    ELSE IF CodeTooLarge(code) THEN "code too large"
    ELSE IF CodeForbidden(code) THEN "forbidden code pattern detected"
    ELSE None

\* which executor class can be imported and constructed in this deployment
CeaEnvs == {"vertex", "builtin", "unavailable"}

\* what calling execute(code) on the executor does; returns_late is a
\* synchronous execute that returns after more than timeout_seconds
ExecuteKinds ==
    {"no_method", "returns", "returns_late", "raises", "awaitable"}

\* how the awaited execution under asyncio.wait_for ends
AwaitOutcomes == {"returns", "raises", "timeout", "cancelled"}

\* a Result mapping; None stands for a key the mapping does not have
Result(status, agent, error, response) ==
    [status |-> status, agent |-> agent, error |-> error,
     response |-> response, blocked |-> FALSE, reason |-> None]

CeaError(message) == Result("error", "code_execution_agent", message, None)

CeaNotImplemented == Result("not_implemented", "code_execution_agent", None, None)

CeaSuccess == Result("success", None, None, None)

NoRet == Result(None, None, None, None)

\* a CodeExecutionAgent that has not been given a request yet
CeaNew(env) ==
    [pc |-> "idle", env |-> env, executor |-> None, request |-> NoCode,
     runs |-> 0, attempts |-> 0, built |-> 0, invoked |-> 0,
     timing |-> "in_time", ret |-> NoRet]

CeaInit == \E env \in CeaEnvs : cea = CeaNew(env)

\* run() of the agent c up to its first suspension: validation, lazy
\* construction of the executor, the call of execute
CeaRunStep(c, code, kind) ==
    LET base == [c EXCEPT !.request = code, !.runs = @ + 1, !.attempts = 0,
                          !.built = 0, !.invoked = 0,
                          !.timing = "in_time", !.ret = NoRet]
        message == CeaValidate(code)
        executor == IF c.executor # None THEN c.executor
                    ELSE IF c.env = "unavailable" THEN None
                    ELSE c.env
        ready == [base EXCEPT !.executor = executor,
                              !.built = IF c.executor = None THEN 1 ELSE 0,
                              !.attempts = IF c.executor # None THEN 0
                                           ELSE IF c.env = "vertex" THEN 1
                                           ELSE 2]
    IN  IF message # None
        THEN [base EXCEPT !.pc = "done", !.ret = CeaError(message)]
        ELSE IF executor = None
        THEN [base EXCEPT !.pc = "done", !.attempts = 2,
                          !.ret = CeaNotImplemented]
        ELSE CASE kind = "no_method" ->
                    [ready EXCEPT !.pc = "done",
                        !.ret = CeaError("Executor missing 'execute' method")]
               [] kind = "raises" ->
                    [ready EXCEPT !.pc = "done", !.invoked = 1,
                                  !.ret = CeaError("str(exc)")]
               [] kind = "returns" ->
                    [ready EXCEPT !.pc = "done", !.invoked = 1,
                                  !.ret = CeaSuccess]
               [] kind = "returns_late" ->
                    [ready EXCEPT !.pc = "done", !.invoked = 1,
                                  !.timing = "late", !.ret = CeaSuccess]
               [] kind = "awaitable" ->
                    [ready EXCEPT !.pc = "await", !.invoked = 1]

\* str(exc) of the asyncio.TimeoutError raised by asyncio.wait_for
TimeoutMessage == ""

\* run() of the agent c resumes from `await asyncio.wait_for(result, timeout)`;
\* a CancelledError is not an Exception and leaves run()
CeaResumeStep(c, outcome) ==
    CASE outcome = "returns" -> [c EXCEPT !.pc = "done", !.ret = CeaSuccess]
      [] outcome = "raises" ->
           [c EXCEPT !.pc = "done", !.ret = CeaError("str(exc)")]
      [] outcome = "timeout" ->
           [c EXCEPT !.pc = "done", !.timing = "cut_off",
                     !.ret = CeaError(TimeoutMessage)]
      [] outcome = "cancelled" -> [c EXCEPT !.pc = "cancelled"]

CeaRun(code, kind) ==
    /\ cea.pc = "idle"
    /\ cea.runs < MaxCeaRuns
    /\ cea' = CeaRunStep(cea, code, kind)
    /\ UNCHANGED <<seq, loop, par, deleg, http, ws, da, ext, dbg, runs>>

CeaResume(outcome) ==
    /\ cea.pc = "await"
    /\ cea' = CeaResumeStep(cea, outcome)
    /\ UNCHANGED <<seq, loop, par, deleg, http, ws, da, ext, dbg, runs>>

\* what an agent keeps once run() has returned: the executor it constructed
CeaKept(c) == [CeaNew(c.env) EXCEPT !.executor = c.executor, !.runs = c.runs]

\* the caller takes the Result; the agent is ready for its next request
CeaNextRequest ==
    /\ cea.pc = "done"
    /\ cea.runs < MaxCeaRuns
    /\ cea' = CeaKept(cea)
    /\ UNCHANGED <<seq, loop, par, deleg, http, ws, da, ext, dbg, runs>>

CeaNext ==
    \/ \E code \in Codes, kind \in ExecuteKinds : CeaRun(code, kind)
    \/ \E outcome \in AwaitOutcomes : CeaResume(outcome)
    \/ CeaNextRequest

(***************************************************************************)
(*   Security callbacks (security/callbacks.py), HumanInteractionAgent.run *)
(*   (agents/hia.py) and the HTTP handlers /orchestrate and /execute       *)
(*   (main.py)                                                             *)
(***************************************************************************)

\* how many HTTP requests the service is given
MaxServed == 2

\* what a request's text contains, as far as the callbacks and the
\* orchestrator look at it
TextFeatures == {"rm -rf", "format c:", "ignore previous", "email", "secret",
                 "oversize", "web preview"}

Messages == {{}} \cup {{f} : f \in TextFeatures}
            \cup {{"rm -rf", "email"}, {"web preview", "secret"}}

OrchRequests == [action : {None, "execute_code"},
                 task_type : {None, "development", "code_generation"},
                 message : Messages]

NoRequest == [action |-> None, task_type |-> None, message |-> {}]

\* str(request): the text the pre-check searches
Str(request) == request.message

\* faulty variant of before_model_callback: no e-mail or secret detection
BeforeModelCallbackNoPII(request) ==
    LET text == Str(request)
    IN  IF "rm -rf" \in text \/ "format c:" \in text
        THEN "dangerous input detected"
        ELSE IF "ignore previous" \in text
        THEN "prompt injection indicators detected"
        ELSE IF "oversize" \in text THEN "request too large"
        ELSE None

\* before_model_callback: the reason of the blocked result, or None
before_model_callback(request) ==
    LET text == Str(request)
    IN  IF "rm -rf" \in text \/ "format c:" \in text
        THEN "dangerous input detected"
        ELSE IF "ignore previous" \in text
        THEN "prompt injection indicators detected"
        ELSE IF "email" \in text THEN "possible PII detected (email)"
        ELSE IF "secret" \in text THEN "possible secret detected"
        ELSE IF "oversize" \in text THEN "request too large"
        ELSE None

\* the imports before_tool_callback forbids: import followed by one of these
ForbiddenImports == {"socket", "subprocess", "pty", "fcntl"}

\* before_tool_callback("code_executor", args): the reason of the blocked
\* result, or None
before_tool_callback(code) ==
    IF code.len > 100000 THEN "code too large"
    ELSE IF \E w \in ForbiddenImports : Search(<<"import", w>>, code.words)
    THEN "forbidden imports in code"
    ELSE None

\* {"blocked": True, "reason": reason}
Blocked(reason) ==
    [status |-> None, agent |-> None, error |-> None, response |-> None,
     blocked |-> TRUE, reason |-> reason]

\* after_model_callback and after_tool_callback hand the mapping on
after_model_callback(response) == response

after_tool_callback(result) == result

HiaName == "human_interaction_agent"

\* a HumanInteractionAgent: llm says that self._llm_agent was built, has_da
\* that a developing agent was given to the constructor
HiaNew(llm, has_da) ==
    [pc |-> "idle", llm |-> llm, has_da |-> has_da, request |-> NoRequest,
     path |-> None, exc |-> None, delegate_calls |-> 0,
     target_runs |-> [t \in Targets |-> 0], ret |-> NoRet]

\* AgentCommunication.delegate_to_agent(self, target, request): the call
\* gives three arguments to a function of four required parameters
\* (parent_agent, target_agent, task, context), so it raises TypeError
\* before the body of delegate_to_agent runs and before the target is run
HiaDelegate(h, target) ==
    [h EXCEPT !.pc = "raised", !.exc = "TypeError",
              !.delegate_calls = @ + 1,
              !.path = IF target = "cea" THEN "execute_code" ELSE "delegated"]

\* the scaffold answer at the end of run()
HiaScaffold == Result("received", HiaName, None, "ADK features are not enabled")

\* the end of run(): the developing agent for development work, else the
\* scaffold answer
HiaFallback(h) ==
    IF h.has_da /\ h.request.task_type \in {"code_generation", "development"}
    THEN HiaDelegate(h, "da")
    ELSE [h EXCEPT !.pc = "returned", !.ret = HiaScaffold,
                   !.path = IF h.path = None THEN "scaffold" ELSE h.path]

\* run() up to its first suspension
HiaRunStep(h, request) ==
    LET base == [h EXCEPT !.request = request, !.path = None, !.exc = None,
                          !.delegate_calls = 0,
                          !.target_runs = [t \in Targets |-> 0],
                          !.ret = NoRet]
    IN  IF request.action = "execute_code" THEN HiaDelegate(base, "cea")
        ELSE IF "web preview" \in request.message
        THEN [base EXCEPT !.pc = "returned", !.path = "direct",
                  !.ret = Result("success", HiaName, None, "instructions")]
        ELSE IF base.llm THEN [base EXCEPT !.pc = "await_llm", !.path = "llm"]
        ELSE HiaFallback(base)

\* how the LLM-backed part of run() ends: a text was extracted; none was and
\* the result says success, holds an error, or neither; the extracted text
\* is only white space; an exception was raised; the request was cancelled
LlmOutcomes == {"text", "no_text_success", "no_text_error", "no_text",
                "blank", "raises", "cancelled"}

\* run() resumes from the LLM-backed part
HiaResumeStep(h, outcome) ==
    CASE outcome = "text" ->
           [h EXCEPT !.pc = "returned",
                     !.ret = Result("success", HiaName, None, "response_text")]
      [] outcome = "no_text_success" ->
           [h EXCEPT !.pc = "returned",
                     !.ret = Result("success", HiaName, None,
                                    "Request processed successfully.")]
      [] outcome = "no_text_error" ->
           [h EXCEPT !.pc = "returned",
                     !.ret = Result("error", HiaName, "result.error",
                                    "Error: result.error")]
      [] outcome = "no_text" ->
           [h EXCEPT !.pc = "returned",
                     !.ret = Result("success", HiaName, None,
                                    "I received your message.")]
      [] outcome = "blank" -> HiaFallback(h)
      [] outcome = "raises" ->
           [h EXCEPT !.pc = "returned",
                     !.ret = Result("error", HiaName, "str(exc)",
                                    "Error processing request: str(exc)")]
      [] outcome = "cancelled" -> [h EXCEPT !.pc = "cancelled"]

\* faulty variant of OrchestrateError: the error mapping without a status
OrchestrateErrorNoStatus == Result(None, HiaName, "An error occurred", None)

\* the mapping /orchestrate returns when hia.run raised an Exception
OrchestrateError == Result("error", HiaName, "An error occurred", None)

HttpInit ==
    \E llm \in BOOLEAN, has_da \in BOOLEAN, env \in CeaEnvs :
        http = [pc |-> "idle", entry |-> None, served |-> 0,
                request |-> NoRequest, code |-> NoCode,
                hia |-> HiaNew(llm, has_da), cea |-> CeaNew(env),
                hia_runs |-> 0, cea_runs |-> 0, ret |-> NoRet]

\* what the handler does with the agent's frame once run() has ended or is
\* suspended
HttpAfterHia(s, h) ==
    CASE h.pc = "returned" ->
           [s EXCEPT !.hia = h, !.pc = "done",
                     !.ret = after_model_callback(h.ret)]
      [] h.pc = "raised" ->
           [s EXCEPT !.hia = h, !.pc = "done", !.ret = OrchestrateError]
      [] h.pc = "await_llm" -> [s EXCEPT !.hia = h, !.pc = "await_hia"]
      [] h.pc = "cancelled" -> [s EXCEPT !.hia = h, !.pc = "cancelled"]

HttpAfterCea(s, c) ==
    CASE c.pc = "done" ->
           [s EXCEPT !.cea = c, !.pc = "done",
                     !.ret = after_tool_callback(c.ret)]
      [] c.pc = "await" -> [s EXCEPT !.cea = c, !.pc = "await_cea"]
      [] c.pc = "cancelled" -> [s EXCEPT !.cea = c, !.pc = "cancelled"]

\* POST /orchestrate up to the first suspension of hia.run
Orchestrate(request) ==
    /\ http.pc = "idle"
    /\ http.served < MaxServed
    /\ LET s == [http EXCEPT !.entry = "orchestrate", !.served = @ + 1,
                             !.hia_runs = 0, !.cea_runs = 0, !.ret = NoRet,
                             !.request = request, !.code = NoCode]
           reason == before_model_callback(request)
       IN  IF reason # None
           THEN http' = [s EXCEPT !.pc = "done", !.ret = Blocked(reason)]
           ELSE http' = HttpAfterHia([s EXCEPT !.hia_runs = 1],
                                     HiaRunStep(s.hia, request))
    /\ UNCHANGED <<seq, loop, par, deleg, cea, ws, da, ext, dbg, runs>>

\* POST /orchestrate resumes when the LLM-backed part of hia.run ends
OrchestrateResume(outcome) ==
    /\ http.pc = "await_hia"
    /\ http' = HttpAfterHia(http, HiaResumeStep(http.hia, outcome))
    /\ UNCHANGED <<seq, loop, par, deleg, cea, ws, da, ext, dbg, runs>>

\* POST /execute up to the first suspension of code_executor.run
Execute(code, kind) ==
    /\ http.pc = "idle"
    /\ http.served < MaxServed
    /\ LET s == [http EXCEPT !.entry = "execute", !.served = @ + 1,
                             !.hia_runs = 0, !.cea_runs = 0, !.ret = NoRet,
                             !.request = NoRequest, !.code = code]
           reason == before_tool_callback(code)
       IN  IF reason # None
           THEN http' = [s EXCEPT !.pc = "done", !.ret = Blocked(reason)]
           ELSE http' = HttpAfterCea([s EXCEPT !.cea_runs = 1],
                                     CeaRunStep(s.cea, code, kind))
    /\ UNCHANGED <<seq, loop, par, deleg, cea, ws, da, ext, dbg, runs>>

\* POST /execute resumes when the awaited execution ends
ExecuteResume(outcome) ==
    /\ http.pc = "await_cea"
    /\ http' = HttpAfterCea(http, CeaResumeStep(http.cea, outcome))
    /\ UNCHANGED <<seq, loop, par, deleg, cea, ws, da, ext, dbg, runs>>

\* the response was sent; the service takes its next request
HttpNextRequest ==
    /\ http.pc = "done"
    /\ http.served < MaxServed
    /\ http' = [http EXCEPT !.pc = "idle", !.entry = None, !.ret = NoRet,
                            !.request = NoRequest, !.code = NoCode,
                            !.hia_runs = 0, !.cea_runs = 0,
                            !.hia = HiaNew(@.llm, @.has_da),
                            !.cea = CeaKept(@)]
    /\ UNCHANGED <<seq, loop, par, deleg, cea, ws, da, ext, dbg, runs>>

HttpNext ==
    \/ \E request \in OrchRequests : Orchestrate(request)
    \/ \E outcome \in LlmOutcomes : OrchestrateResume(outcome)
    \/ \E code \in Codes, kind \in ExecuteKinds : Execute(code, kind)
    \/ \E outcome \in AwaitOutcomes : ExecuteResume(outcome)
    \/ HttpNextRequest

(***************************************************************************)
(*   WebSocketManager.handle_agent_request  (websocket/handler.py)         *)
(***************************************************************************)

\* how many requests arrive on the connection
MaxWsRequests == 2

\* request.get("type", "orchestrate"); "other" is any unrecognised type
WsTypes == {"user_message", "orchestrate", "execute_code", "file_explorer",
            "terminal_execute", "other"}

\* payload.command of a terminal_execute request: python says that the text
\* holds one of the python keywords _convert_command_to_python looks for
Commands == [python : BOOLEAN, code : {c \in Codes : c.present /\ c.len = 20}]

\* _convert_command_to_python: python text is handed on as it is, a shell
\* command is wrapped in a script that starts with `import subprocess`
ConvertCommandToPython(command) ==
    IF command.python THEN command.code
    ELSE [present |-> TRUE, len |-> 400,
          words |-> <<"import", "subprocess", "import", "sys">>]

WsInit ==
    \E llm \in BOOLEAN, has_da \in BOOLEAN, env \in CeaEnvs :
        ws = [pc |-> "idle", type |-> None, handled |-> 0,
              request |-> NoRequest, code |-> NoCode, sent |-> <<>>,
              hia |-> HiaNew(llm, has_da), cea |-> CeaNew(env),
              hia_runs |-> 0, cea_runs |-> 0]

\* send_personal_message: the message goes to websocket.send_json; sent
\* keeps the types of the messages of the request in hand
Send(s, type) == [s EXCEPT !.sent = Append(@, type)]

\* a new request is taken in hand
WsTake(type, request, code) ==
    [ws EXCEPT !.type = type, !.handled = @ + 1, !.request = request,
               !.code = code, !.sent = <<>>, !.hia_runs = 0, !.cea_runs = 0]

\* the handler after `await self.hia.run(...)`; no Result of hia.run has a
\* 'result' or 'llm_result' key, so a user_message is never answered with
\* a code_result message
WsAfterHia(s, h) ==
    LET t == [s EXCEPT !.hia = h]
    IN  CASE h.pc = "await_llm" -> [t EXCEPT !.pc = "await_hia"]
          [] h.pc = "cancelled" -> [t EXCEPT !.pc = "cancelled"]
          [] h.pc = "raised" -> [Send(t, "error") EXCEPT !.pc = "done"]
          [] h.pc = "returned" ->
               IF s.type = "user_message"
               THEN [Send(t, "agent_response") EXCEPT !.pc = "done"]
               ELSE [Send(Send(t, "progress"), "result") EXCEPT !.pc = "done"]

\* faulty variant of WsAfterCea: a progress message follows the result
WsAfterCeaProgressLast(s, c) ==
    LET t == [s EXCEPT !.cea = c]
    IN  CASE c.pc = "await" -> [t EXCEPT !.pc = "await_cea"]
          [] c.pc = "cancelled" -> [t EXCEPT !.pc = "cancelled"]
          [] c.pc = "done" ->
               [Send(Send(t, "result"), "progress") EXCEPT !.pc = "done"]

\* the handler after `await self.code_executor.run(...)`
WsAfterCea(s, c) ==
    LET t == [s EXCEPT !.cea = c]
    IN  CASE c.pc = "await" -> [t EXCEPT !.pc = "await_cea"]
          [] c.pc = "cancelled" -> [t EXCEPT !.pc = "cancelled"]
          [] c.pc = "done" ->
               IF s.type = "terminal_execute"
               THEN [Send(t, "terminal_result") EXCEPT !.pc = "done"]
               ELSE [Send(t, "result") EXCEPT !.pc = "done"]

\* type user_message: a status message, then hia.run on the message
WsUserMessage(message) ==
    /\ ws.pc = "idle"
    /\ ws.handled < MaxWsRequests
    /\ LET request == [action |-> None, task_type |-> None,
                       message |-> message]
           s == Send(WsTake("user_message", request, NoCode), "status")
       IN  ws' = WsAfterHia([s EXCEPT !.hia_runs = 1],
                            HiaRunStep(s.hia, request))
    /\ UNCHANGED <<seq, loop, par, deleg, cea, http, da, ext, dbg, runs>>

\* type orchestrate: ack, progress, then hia.run on the payload
WsOrchestrate(payload) ==
    /\ ws.pc = "idle"
    /\ ws.handled < MaxWsRequests
    /\ LET s == Send(Send(WsTake("orchestrate", payload, NoCode), "ack"),
                     "progress")
       IN  ws' = WsAfterHia([s EXCEPT !.hia_runs = 1],
                            HiaRunStep(s.hia, payload))
    /\ UNCHANGED <<seq, loop, par, deleg, cea, http, da, ext, dbg, runs>>

\* type execute_code: ack, progress, then code_executor.run on the payload
WsExecuteCode(code, kind) ==
    /\ ws.pc = "idle"
    /\ ws.handled < MaxWsRequests
    /\ LET s == Send(Send(WsTake("execute_code", NoRequest, code), "ack"),
                     "progress")
       IN  ws' = WsAfterCea([s EXCEPT !.cea_runs = 1],
                            CeaRunStep(s.cea, code, kind))
    /\ UNCHANGED <<seq, loop, par, deleg, cea, http, da, ext, dbg, runs>>

\* type terminal_execute: ack, terminal_progress, then code_executor.run on
\* the converted command
WsTerminalExecute(command, kind) ==
    /\ ws.pc = "idle"
    /\ ws.handled < MaxWsRequests
    /\ LET python_code == ConvertCommandToPython(command)
           s == Send(Send(WsTake("terminal_execute", NoRequest, python_code),
                          "ack"), "terminal_progress")
       IN  ws' = WsAfterCea([s EXCEPT !.cea_runs = 1],
                            CeaRunStep(s.cea, python_code, kind))
    /\ UNCHANGED <<seq, loop, par, deleg, cea, http, da, ext, dbg, runs>>

\* type file_explorer: ack, progress, then the file operation is awaited
WsFileExplorer ==
    /\ ws.pc = "idle"
    /\ ws.handled < MaxWsRequests
    /\ ws' = [Send(Send(WsTake("file_explorer", NoRequest, NoCode), "ack"),
                   "progress") EXCEPT !.pc = "await_file"]
    /\ UNCHANGED <<seq, loop, par, deleg, cea, http, da, ext, dbg, runs>>

\* any other type: ack, then an error message
WsOtherType ==
    /\ ws.pc = "idle"
    /\ ws.handled < MaxWsRequests
    /\ ws' = [Send(Send(WsTake("other", NoRequest, NoCode), "ack"), "error")
                EXCEPT !.pc = "done"]
    /\ UNCHANGED <<seq, loop, par, deleg, cea, http, da, ext, dbg, runs>>

\* the handler resumes when the LLM-backed part of hia.run ends
WsHiaResume(outcome) ==
    /\ ws.pc = "await_hia"
    /\ ws' = WsAfterHia(ws, HiaResumeStep(ws.hia, outcome))
    /\ UNCHANGED <<seq, loop, par, deleg, cea, http, da, ext, dbg, runs>>

\* the handler resumes when the awaited execution ends
WsCeaResume(outcome) ==
    /\ ws.pc = "await_cea"
    /\ ws' = WsAfterCea(ws, CeaResumeStep(ws.cea, outcome))
    /\ UNCHANGED <<seq, loop, par, deleg, cea, http, da, ext, dbg, runs>>

\* the handler resumes when the file operation ends
WsFileResume(outcome) ==
    /\ ws.pc = "await_file"
    /\ CASE outcome = "returns" ->
              ws' = [Send(ws, "file_explorer_result") EXCEPT !.pc = "done"]
         [] outcome = "raises" ->
              ws' = [Send(ws, "error") EXCEPT !.pc = "done"]
         [] outcome = "cancelled" -> ws' = [ws EXCEPT !.pc = "cancelled"]
    /\ UNCHANGED <<seq, loop, par, deleg, cea, http, da, ext, dbg, runs>>

\* handle_agent_request has returned; websocket_endpoint receives the next
\* text
WsNextRequest ==
    /\ ws.pc = "done"
    /\ ws.handled < MaxWsRequests
    /\ ws' = [ws EXCEPT !.pc = "idle", !.type = None, !.sent = <<>>,
                        !.request = NoRequest, !.code = NoCode,
                        !.hia_runs = 0, !.cea_runs = 0,
                        !.hia = HiaNew(@.llm, @.has_da),
                        !.cea = CeaKept(@)]
    /\ UNCHANGED <<seq, loop, par, deleg, cea, http, da, ext, dbg, runs>>

WsNext ==
    \/ \E message \in Messages : WsUserMessage(message)
    \/ \E payload \in OrchRequests : WsOrchestrate(payload)
    \/ \E code \in Codes, kind \in ExecuteKinds : WsExecuteCode(code, kind)
    \/ \E command \in Commands, kind \in ExecuteKinds :
          WsTerminalExecute(command, kind)
    \/ WsFileExplorer
    \/ WsOtherType
    \/ \E outcome \in LlmOutcomes : WsHiaResume(outcome)
    \/ \E outcome \in AwaitOutcomes : WsCeaResume(outcome)
    \/ \E outcome \in {"returns", "raises", "cancelled"} : WsFileResume(outcome)
    \/ WsNextRequest

(***************************************************************************)
(*                           Specifications                                *)
(***************************************************************************)
(*        DevelopingAgent._save_web_assets and ArtifactService             *)
(***************************************************************************)

\* longest assets list of a save_web_assets request
MaxAssets == 2

\* request.get("session_id"): falsy (absent, None or ""), a string, or a
\* truthy value that cannot be a dictionary key (a JSON array)
SessionIds == {"falsy", "text", "unhashable"}

\* request.get("assets"): absent, a list, or a truthy value of another type
AssetsKinds == {"missing", "list", "not_list"}

\* an entry of the assets list: a mapping with a name and a text content,
\* one without a name, one without a content, one whose content bytes()
\* rejects, or a value that is not a mapping
AssetKinds == {"ok", "no_name", "no_content", "unencodable", "not_mapping"}

RECURSIVE AssetLists(_)
\* the assets lists of at most k entries
AssetLists(k) ==
    IF k = 0 THEN {<<>>}
    ELSE LET shorter == AssetLists(k - 1)
         IN shorter \cup {Append(l, a) : l \in shorter, a \in AssetKinds}

\* self.artifact_service: None, an ArtifactService on its local store, or
\* one wrapping an ADK artifact service
ArtifactServices == {"none", "local", "adk"}

\* what the ADK service's save does when called: it returns, it raises, or
\* the service has neither save nor save_artifact
AdkSaveOutcomes == {"returns", "raises", "no_method"}

DaName == "developing_agent"

\* the Result of _save_web_assets; asset is the position of the asset an
\* error message names (0: none), artifacts the saved list
DaResult(status, error, asset, artifacts) ==
    [status |-> status, agent |-> DaName, error |-> error, asset |-> asset,
     artifacts |-> artifacts]

\* artifact.py:38-91 save_artifact: what the call does, as [kind, status]
save_artifact(service, session_id, adk) ==
    IF service = "adk" /\ adk = "returns"
    THEN [kind |-> "return", status |-> "success"]
    ELSE IF service = "adk" /\ adk = "raises"
    THEN [kind |-> "return", status |-> "error"]
    ELSE IF session_id = "unhashable"
    THEN [kind |-> "raise", status |-> None]
    ELSE [kind |-> "return", status |-> "success"]

\* da.py:288-311: the awaited save_artifact returned or raised
DaAfterSave(d, outcome) ==
    IF outcome.kind = "raise"
    THEN [d EXCEPT !.pc = "done",
                   !.outcomes = Append(@, outcome),
                   !.ret = DaResult("error", "Failed to save asset", d.idx,
                                    <<>>)]
    ELSE [d EXCEPT !.pc = "for", !.idx = @ + 1,
                   !.outcomes = Append(@, outcome),
                   !.saved = Append(@, [name |-> d.idx,
                                        artifact |-> outcome.status])]

DaInit ==
    \E session_id \in SessionIds, kind \in AssetsKinds,
       assets \in AssetLists(MaxAssets), service \in ArtifactServices :
        /\ kind # "list" => assets = <<>>
        /\ da = [pc |-> "idle", session_id |-> session_id,
                 assets_kind |-> kind, assets |-> assets,
                 artifact_service |-> service, idx |-> 0, saved |-> <<>>,
                 store_calls |-> <<>>, outcomes |-> <<>>,
                 ret |-> DaResult(None, None, 0, <<>>)]

\* da.py:253-275: the three checks before the loop
SaveWebAssets ==
    /\ da.pc = "idle"
    /\ da' =
         IF da.session_id = "falsy"
         THEN [da EXCEPT !.pc = "done",
                         !.ret = DaResult("error",
                             "session_id is required to save web assets",
                             0, <<>>)]
         ELSE IF da.assets_kind # "list" \/ da.assets = <<>>
         THEN [da EXCEPT !.pc = "done",
                         !.ret = DaResult("error",
                             "assets list is required to save web assets",
                             0, <<>>)]
         ELSE IF da.artifact_service = "none"
         THEN [da EXCEPT !.pc = "done",
                         !.ret = DaResult("error",
                             "ArtifactService is not available; cannot persist web assets",
                             0, <<>>)]
         ELSE [da EXCEPT !.pc = "for", !.idx = 1, !.saved = <<>>]
    /\ UNCHANGED <<seq, loop, par, deleg, cea, http, ws, ext, dbg, runs>>

\* da.py:276-286: an asset without a name or a content, or whose content
\* cannot be turned into bytes, is passed over
DaSkipAsset ==
    /\ da.pc = "for"
    /\ da.idx <= Len(da.assets)
    /\ da.assets[da.idx] \in {"no_name", "no_content", "unencodable"}
    /\ da' = [da EXCEPT !.idx = @ + 1]
    /\ UNCHANGED <<seq, loop, par, deleg, cea, http, ws, ext, dbg, runs>>

\* da.py:277: asset.get on a value that is not a mapping raises
\* AttributeError, outside any try
DaAssetRaises ==
    /\ da.pc = "for"
    /\ da.idx <= Len(da.assets)
    /\ da.assets[da.idx] = "not_mapping"
    /\ da' = [da EXCEPT !.pc = "raised"]
    /\ UNCHANGED <<seq, loop, par, deleg, cea, http, ws, ext, dbg, runs>>

\* da.py:288-289: save_artifact is called for the asset
DaSaveArtifact ==
    /\ da.pc = "for"
    /\ da.idx <= Len(da.assets)
    /\ da.assets[da.idx] = "ok"
    /\ da' = [da EXCEPT !.pc = "await", !.store_calls = Append(@, da.idx)]
    /\ UNCHANGED <<seq, loop, par, deleg, cea, http, ws, ext, dbg, runs>>

\* da.py:289-311 with artifact.py:54-91
DaSaveArtifactDone(adk) ==
    /\ da.pc = "await"
    /\ da' = DaAfterSave(da, save_artifact(da.artifact_service,
                                           da.session_id, adk))
    /\ UNCHANGED <<seq, loop, par, deleg, cea, http, ws, ext, dbg, runs>>

\* da.py:313-317: the loop is over
DaFinish ==
    /\ da.pc = "for"
    /\ da.idx > Len(da.assets)
    /\ da' = [da EXCEPT !.pc = "done",
                        !.ret = DaResult("success", None, 0, da.saved)]
    /\ UNCHANGED <<seq, loop, par, deleg, cea, http, ws, ext, dbg, runs>>

DaNext ==
    \/ SaveWebAssets
    \/ DaSkipAsset
    \/ DaAssetRaises
    \/ DaSaveArtifact
    \/ \E adk \in AdkSaveOutcomes : DaSaveArtifactDone(adk)
    \/ DaFinish

DaOff == [pc |-> "off", session_id |-> "falsy", assets_kind |-> "missing",
          assets |-> <<>>, artifact_service |-> "none", idx |-> 0,
          saved |-> <<>>, store_calls |-> <<>>, outcomes |-> <<>>,
          ret |-> DaResult(None, None, 0, <<>>)]

(***************************************************************************)
(*             HumanInteractionAgent._extract_response_text                *)
(***************************************************************************)

\* most keys of a mapping given to _extract_response_text
MaxKeys == 2

\* Python values: None, a string, an object that is neither a string nor a
\* mapping, and a mapping (d is a function from its keys to values)
NoneV == [type |-> "none"]

StrV(s) == [type |-> "str", s |-> s]

ObjV == [type |-> "object"]

DictV(d) == [type |-> "dict", d |-> d]

\* the mapping without keys
EmptyDict == [k \in {} |-> NoneV]

\* hia.py:233: the keys tried on the result mapping, in this order
ResponseKeys ==
    <<"response", "text", "content", "message", "output", "result", "data",
      "developing_agent_response", "delegated_response",
      "web_preview_message">>

\* hia.py:210, 221: the keys tried on a session's state, in this order
StateKeys ==
    <<"hia_response", "developing_agent_response", "delegated_response",
      "web_preview_message">>

\* hia.py:253: the keys tried on event_actions, in this order
EventActionsKeys == <<"response", "text", "message", "output">>

\* the text stored at a place of a mapping, told apart by the place
TextAt(path) == "answer at " \o path

\* mappings nested as a value under the key named by path
InnerDicts(path) ==
    {"text" :> StrV(TextAt(path \o ".text")),
     "status" :> StrV("success")}

\* the values a key of a mapping may hold
ValuesAt(path) ==
    {StrV(""), StrV(" "), StrV(TextAt(path)), ObjV}
        \cup {DictV(d) : d \in InnerDicts(path)}

\* a session mapping: {"state": {key: value}} for one state key
SessionValues ==
    {DictV("state" :> DictV(key :> v)) :
        key \in {"hia_response", "web_preview_message"},
        v \in {StrV(TextAt("session.state")), ObjV}
                 \cup {DictV(d) : d \in InnerDicts("session.state")}}

\* the keys of the mappings given to _extract_response_text, in the order
\* the mappings are enumerated in
TopKeys ==
    <<"response", "text", "message", "result", "data",
      "web_preview_message", "session", "event_actions", "llm_response",
      "status">>

TopValues(key) ==
    IF key = "session" THEN SessionValues
    ELSE IF key = "event_actions"
    THEN {ObjV} \cup {DictV(k :> v) : k \in {"response", "output"},
                                      v \in {StrV(" "),
                                             StrV(TextAt("event_actions"))}}
    ELSE IF key = "status" THEN {StrV("success"), StrV("error")}
    ELSE ValuesAt(key)

RECURSIVE Dicts(_, _)
\* the mappings of at most k keys, all among TopKeys[i], TopKeys[i+1], ...
Dicts(k, i) ==
    IF k = 0 \/ i > Len(TopKeys) THEN {EmptyDict}
    ELSE Dicts(k, i + 1) \cup
         UNION {{(TopKeys[i] :> v) @@ d : d \in Dicts(k - 1, i + 1)} :
                  v \in TopValues(TopKeys[i])}

\* the results given to _extract_response_text
ExtractInputs ==
    {NoneV, StrV(""), StrV(" "), StrV(TextAt("result")), ObjV}
        \cup {DictV(d) : d \in Dicts(MaxKeys, 1)}

\* bool(value)
Truthy(v) ==
    CASE v.type = "none" -> FALSE
      [] v.type = "str" -> v.s # ""
      [] v.type = "dict" -> DOMAIN v.d # {}
      [] v.type = "object" -> TRUE

\* value.strip() of the strings above
Strip(s) == IF s = " " THEN "" ELSE s

\* str(object()): the interpreter's generic representation
ObjectRepr == "<object object at 0x7f3a5c0b1d20>"

\* str(value); for a mapping with keys the representation is stood for by
\* one text: it opens with a brace and, for the keys above, is longer than
\* ten characters whatever the values
PyStr(v) ==
    CASE v.type = "none" -> "None"
      [] v.type = "str" -> v.s
      [] v.type = "object" -> ObjectRepr
      [] v.type = "dict" ->
            IF DOMAIN v.d = {} THEN "{}" ELSE "{'key': value}"

\* result_str.startswith("<")
StartsWithLt(s) == s = ObjectRepr

\* the outcome of one stage of the extraction: a return with text, or none
Returns(text) == [returned |-> TRUE, text |-> text]

NoReturn == [returned |-> FALSE, text |-> ""]

RECURSIVE extract_response_text(_)
RECURSIVE ScanState(_, _)
RECURSIVE ScanKeys(_, _)

\* hia.py:221-230: the loop over the state keys from position i; a mapping
\* found there is extracted from and returned whatever comes out
ScanState(state, i) ==
    IF i > Len(StateKeys) THEN NoReturn
    ELSE IF StateKeys[i] \in DOMAIN state /\ Truthy(state[StateKeys[i]])
    THEN LET stored_value == state[StateKeys[i]]
         IN CASE stored_value.type = "str" -> Returns(stored_value.s)
              [] stored_value.type = "dict" ->
                    Returns(extract_response_text(stored_value))
              [] OTHER -> ScanState(state, i + 1)
    ELSE ScanState(state, i + 1)

\* hia.py:205-230: a session held under the key session, as a mapping
FromSession(d) ==
    IF "session" \notin DOMAIN d THEN NoReturn
    ELSE LET session == d["session"]
         IN IF /\ session.type = "dict"
               /\ "state" \in DOMAIN session.d
               /\ session.d["state"].type = "dict"
            THEN ScanState(session.d["state"].d, 1)
            ELSE NoReturn

\* hia.py:235-247: what one key's value yields; a string that strip()
\* empties goes through the last branch all the same
KeyText(value) ==
    IF value.type = "str" /\ Strip(value.s) # "" THEN value.s
    ELSE extract_response_text(value)

\* hia.py:233-247: the loop over the response keys from position i
ScanKeys(d, i) ==
    IF i > Len(ResponseKeys) THEN NoReturn
    ELSE IF ResponseKeys[i] \in DOMAIN d /\ KeyText(d[ResponseKeys[i]]) # ""
    THEN Returns(KeyText(d[ResponseKeys[i]]))
    ELSE ScanKeys(d, i + 1)

\* hia.py:250-257: the first event_actions key, in order, holding a string
\* that strip() does not empty
FromEventActions(d) ==
    IF "event_actions" \in DOMAIN d /\ d["event_actions"].type = "dict"
    THEN LET event_actions == d["event_actions"].d
             hits == {i \in 1..Len(EventActionsKeys) :
                         /\ EventActionsKeys[i] \in DOMAIN event_actions
                         /\ event_actions[EventActionsKeys[i]].type = "str"
                         /\ Strip(event_actions[EventActionsKeys[i]].s) # ""}
         IN IF hits = {} THEN NoReturn
            ELSE LET i == CHOOSE i \in hits : \A j \in hits : i <= j
                 IN Returns(event_actions[EventActionsKeys[i]].s)
    ELSE NoReturn

\* hia.py:260-261
FromLlmResponse(d) ==
    IF "llm_response" \in DOMAIN d
    THEN Returns(extract_response_text(d["llm_response"]))
    ELSE NoReturn

\* hia.py:264-267
FromStatusMessage(d) ==
    IF /\ "status" \in DOMAIN d /\ "message" \in DOMAIN d
       /\ d["message"].type = "str" /\ Strip(d["message"].s) # ""
    THEN Returns(d["message"].s)
    ELSE NoReturn

\* hia.py:270-278: the string representation, unless it is empty, opens
\* with "<" or has ten characters or fewer
Stringified(result) ==
    LET result_str == PyStr(result)
    IN IF result_str # "" /\ ~StartsWithLt(result_str) /\ Len(result_str) > 10
       THEN result_str
       ELSE ""

\* hia.py:133-278 (the result is no google.genai Content object)
extract_response_text(result) ==
    IF result.type = "none" THEN ""
    ELSE IF result.type = "str" THEN result.s
    ELSE IF result.type = "dict"
    THEN LET d == result.d
         IN IF FromSession(d).returned THEN FromSession(d).text
            ELSE IF ScanKeys(d, 1).returned THEN ScanKeys(d, 1).text
            ELSE IF FromEventActions(d).returned
            THEN FromEventActions(d).text
            ELSE IF FromLlmResponse(d).returned THEN FromLlmResponse(d).text
            ELSE IF FromStatusMessage(d).returned
            THEN FromStatusMessage(d).text
            ELSE Stringified(result)
    ELSE Stringified(result)

ExtInit ==
    \E result \in ExtractInputs :
        ext = [pc |-> "idle", result |-> result, text |-> ""]

\* hia.py:1032: response_text = self._extract_response_text(result, request)
ExtractResponseText ==
    /\ ext.pc = "idle"
    /\ ext' = [ext EXCEPT !.pc = "done",
                          !.text = extract_response_text(ext.result)]
    /\ UNCHANGED <<seq, loop, par, deleg, cea, http, ws, da, dbg, runs>>

ExtNext == ExtractResponseText

ExtOff == [pc |-> "off", result |-> NoneV, text |-> ""]

(***************************************************************************)
(*                        DebugAgent breakpoints                           *)
(***************************************************************************)

\* most requests made to one DebugAgent
MaxDebugRequests == 4

\* request.get("line", 0) and request.get("file", "") of the requests made
Lines == {0, 10, 20}

Files == {"", "test.py"}

DebugActions == {"set_breakpoint", "remove_breakpoint", "analyze"}

DebugRequests == [action : DebugActions, line : Lines, file : Files]

\* the Result of DebugAgent.run; breakpoint_set is FALSE when the key is
\* not in the mapping
DebugResult(breakpoint_set, breakpoints) ==
    [status |-> "success", agent |-> "debug_agent",
     breakpoint_set |-> breakpoint_set, breakpoints |-> breakpoints]

\* faulty variant of Remaining: the list is cut at its first breakpoint on
\* the line
RemainingUpToLine(breakpoints, line) ==
    IF \E k \in 1..Len(breakpoints) : breakpoints[k].line = line
    THEN LET first == CHOOSE k \in 1..Len(breakpoints) :
                         /\ breakpoints[k].line = line
                         /\ \A j \in 1..(k - 1) : breakpoints[j].line # line
         IN SubSeq(breakpoints, 1, first - 1)
    ELSE breakpoints

\* ide_components.py:164: [bp for bp in self.breakpoints
\*                         if bp.get("line") != line]
Remaining(breakpoints, line) ==
    LET Keep(bp) == bp.line # line
    IN SelectSeq(breakpoints, Keep)

DbgInit ==
    dbg = [pc |-> "idle", breakpoints |-> <<>>, before |-> <<>>,
           request |-> [action |-> "analyze", line |-> 0, file |-> ""],
           requests |-> 0, ret |-> DebugResult(FALSE, <<>>)]

\* ide_components.py:156-160
SetBreakpoint(line, file) ==
    /\ dbg.pc \in {"idle", "done"}
    /\ dbg.requests < MaxDebugRequests
    /\ LET breakpoints == Append(dbg.breakpoints,
                                 [line |-> line, file |-> file])
       IN dbg' = [dbg EXCEPT
                    !.pc = "done",
                    !.request = [action |-> "set_breakpoint", line |-> line,
                                 file |-> file],
                    !.before = dbg.breakpoints,
                    !.breakpoints = breakpoints,
                    !.requests = @ + 1,
                    !.ret = DebugResult(TRUE, breakpoints)]
    /\ UNCHANGED <<seq, loop, par, deleg, cea, http, ws, da, ext, runs>>

\* ide_components.py:162-165
RemoveBreakpoint(line) ==
    /\ dbg.pc \in {"idle", "done"}
    /\ dbg.requests < MaxDebugRequests
    /\ LET breakpoints == Remaining(dbg.breakpoints, line)
       IN dbg' = [dbg EXCEPT
                    !.pc = "done",
                    !.request = [action |-> "remove_breakpoint",
                                 line |-> line, file |-> ""],
                    !.before = dbg.breakpoints,
                    !.breakpoints = breakpoints,
                    !.requests = @ + 1,
                    !.ret = DebugResult(FALSE, breakpoints)]
    /\ UNCHANGED <<seq, loop, par, deleg, cea, http, ws, da, ext, runs>>

\* ide_components.py:167-176, without an LlmAgent: any other action
DebugAnalyze ==
    /\ dbg.pc \in {"idle", "done"}
    /\ dbg.requests < MaxDebugRequests
    /\ dbg' = [dbg EXCEPT
                 !.pc = "done",
                 !.request = [action |-> "analyze", line |-> 0, file |-> ""],
                 !.before = dbg.breakpoints,
                 !.requests = @ + 1,
                 !.ret = DebugResult(FALSE, dbg.breakpoints)]
    /\ UNCHANGED <<seq, loop, par, deleg, cea, http, ws, da, ext, runs>>

DbgNext ==
    \/ \E line \in Lines, file \in Files : SetBreakpoint(line, file)
    \/ \E line \in Lines : RemoveBreakpoint(line)
    \/ DebugAnalyze

DbgOff == [pc |-> "off", breakpoints |-> <<>>, before |-> <<>>,
           request |-> [action |-> "analyze", line |-> 0, file |-> ""],
           requests |-> 0, ret |-> DebugResult(FALSE, <<>>)]

(***************************************************************************)
(*        Two run invocations of one LoopAgent on one event loop           *)
(***************************************************************************)

\* longest sub-agent list and largest max_iterations of the shared LoopAgent
MaxRunAgents == 2

MaxRunIter == 2

\* the two invocations of run; each has its own locals, both share the
\* instance attribute _exit_requested
Invocations == {1, 2}

\* the locals of an invocation that has not started.  appended counts the
\* entries of its results list; requested says that an exit request made by
\* one of its own sub-agents is pending, asked that one was ever made, owed
\* that its last sub-agent returned, without escalating, from a run during
\* which such a request was made
RunsLocals ==
    [pc |-> "idle", iteration_count |-> 0, idx |-> 0, appended |-> 0,
     requested |-> FALSE, asked |-> FALSE, owed |-> FALSE,
     termination_reason |-> None]

RunsInit ==
    \E n \in 1..MaxRunAgents, max_iterations \in 1..MaxRunIter :
        runs = [n |-> n, max_iterations |-> max_iterations,
                exit_requested |-> FALSE,
                inv |-> [r \in Invocations |-> RunsLocals]]

\* workflow.py:111-114 and 152-159: from the while condition to the next
\* await of a sub-agent's run, or to the return after the loop; no other
\* code runs in between
RunsWhile(locals, max_iterations, exit_requested) ==
    IF locals.iteration_count < max_iterations /\ ~exit_requested
    THEN [locals EXCEPT !.pc = "await", !.iteration_count = @ + 1, !.idx = 1]
    ELSE [locals EXCEPT
            !.pc = "done",
            !.termination_reason =
                IF exit_requested THEN "exit_loop_tool"
                ELSE "max_iterations_reached"]

\* workflow.py:95-114: run is called: the shared flag is reset, the locals
\* start at zero, the first sub-agent is awaited
RunsBegin(r) ==
    [runs EXCEPT !.exit_requested = FALSE,
                 !.inv[r] = RunsWhile(RunsLocals, runs.max_iterations, FALSE)]

RunsStart(r) ==
    /\ runs.inv[r].pc = "idle"
    /\ runs' = RunsBegin(r)
    /\ UNCHANGED <<seq, loop, par, deleg, cea, http, ws, da, ext, dbg>>

\* workflow.py:55: a sub-agent running inside invocation r calls the
\* exit_loop tool
RunsExitLoop(r) ==
    /\ runs.inv[r].pc = "await"
    /\ ~runs.inv[r].requested
    /\ runs' = [runs EXCEPT !.exit_requested = TRUE,
                            !.inv[r].requested = TRUE,
                            !.inv[r].asked = TRUE]
    /\ UNCHANGED <<seq, loop, par, deleg, cea, http, ws, da, ext, dbg>>

\* workflow.py:114-152: the sub-agent awaited by invocation r returned: the
\* entry is appended, the three signals are checked, and the loops go on to
\* the next await or to the return
RunsReturn(r, result) ==
    /\ runs.inv[r].pc = "await"
    /\ LET locals == [runs.inv[r] EXCEPT
                        !.appended = @ + 1,
                        !.requested = FALSE,
                        !.owed = runs.inv[r].requested
                                 /\ ~LoopEventEscalate(result)
                                 /\ ~LoopLegacyEscalate(result)]
           reason == LoopSignal(result, runs.exit_requested)
       IN runs' = [runs EXCEPT !.inv[r] =
                     IF reason # None
                     THEN [locals EXCEPT !.pc = "done",
                                         !.termination_reason = reason]
                     ELSE IF locals.idx < runs.n
                     THEN [locals EXCEPT !.idx = @ + 1]
                     ELSE RunsWhile(locals, runs.max_iterations,
                                    runs.exit_requested)]
    /\ UNCHANGED <<seq, loop, par, deleg, cea, http, ws, da, ext, dbg>>

RunsNext ==
    \/ \E r \in Invocations : RunsStart(r)
    \/ \E r \in Invocations : RunsExitLoop(r)
    \/ \E r \in Invocations, result \in LoopResults : RunsReturn(r, result)

RunsOff == [n |-> 0, max_iterations |-> 0, exit_requested |-> FALSE,
            inv |-> [r \in Invocations |->
                        [RunsLocals EXCEPT !.pc = "off"]]]

(***************************************************************************)

\* a component that is switched off
SeqOff == [n |-> 0, pc |-> "off", idx |-> 0, results |-> <<>>,
           request |-> FullRequest, request0 |-> FullRequest,
           current_request |-> Alias(FullRequest),
           calls |-> NoCalls, order |-> <<>>, ret |-> [status |-> None]]

LoopOff == [n |-> 0, max_iterations |-> 0, pc |-> "off", iteration_count |-> 0,
            idx |-> 0, exit_requested |-> FALSE, results |-> <<>>,
            request |-> FullRequest, request0 |-> FullRequest,
            current_request |-> Alias(FullRequest),
            calls |-> NoCalls, ret |-> [status |-> None]]

ParOff == [n |-> 0, pc |-> "off", task |-> [i \in 1..MaxAgents |-> None],
           outcome |-> [i \in 1..MaxAgents |-> NoOutcome],
           request |-> FullRequest, request0 |-> FullRequest,
           passed |-> [i \in 1..MaxAgents |-> Alias(FullRequest)],
           completed |-> <<>>, calls |-> NoCalls, ret |-> [status |-> None]]

DelegOff == [session |-> "off", pc |-> "off", target |-> None, clock |-> 0,
             delegations |-> <<>>, transfers |-> <<>>, active_agent |-> None,
             stored |-> [t \in Targets |-> None],
             runs |-> [t \in Targets |-> 0],
             delegate_calls |-> 0, transfer_calls |-> 0, appended |-> <<>>,
             last |-> [op |-> None, target |-> None, outcome |-> NoOutcome],
             ret |-> [status |-> None],
             add_delegation_calls |-> 0, add_transfer_calls |-> 0]

CeaOff == [CeaNew("unavailable") EXCEPT !.pc = "off"]

HttpOff == [pc |-> "off", entry |-> None, served |-> 0,
            request |-> NoRequest, code |-> NoCode,
            hia |-> HiaNew(FALSE, FALSE), cea |-> CeaNew("unavailable"),
            hia_runs |-> 0, cea_runs |-> 0, ret |-> NoRet]

WsOff == [pc |-> "off", type |-> None, handled |-> 0,
          request |-> NoRequest, code |-> NoCode, sent |-> <<>>,
          hia |-> HiaNew(FALSE, FALSE), cea |-> CeaNew("unavailable"),
          hia_runs |-> 0, cea_runs |-> 0]

\* The components do not touch each other's state, so they are explored one
\* at a time: an initial state switches exactly one of them on.
Init ==
    \/ SeqInit /\ loop = LoopOff /\ par = ParOff /\ deleg = DelegOff
               /\ cea = CeaOff /\ http = HttpOff /\ ws = WsOff /\ da = DaOff
               /\ ext = ExtOff /\ dbg = DbgOff /\ runs = RunsOff
    \/ LoopInit /\ seq = SeqOff /\ par = ParOff /\ deleg = DelegOff
                /\ cea = CeaOff /\ http = HttpOff /\ ws = WsOff /\ da = DaOff
                /\ ext = ExtOff /\ dbg = DbgOff /\ runs = RunsOff
    \/ ParInit /\ seq = SeqOff /\ loop = LoopOff /\ deleg = DelegOff
               /\ cea = CeaOff /\ http = HttpOff /\ ws = WsOff /\ da = DaOff
               /\ ext = ExtOff /\ dbg = DbgOff /\ runs = RunsOff
    \/ DelegInit /\ seq = SeqOff /\ loop = LoopOff /\ par = ParOff
                 /\ cea = CeaOff /\ http = HttpOff /\ ws = WsOff /\ da = DaOff
                 /\ ext = ExtOff /\ dbg = DbgOff /\ runs = RunsOff
    \/ CeaInit /\ seq = SeqOff /\ loop = LoopOff /\ par = ParOff
               /\ deleg = DelegOff /\ http = HttpOff /\ ws = WsOff
               /\ da = DaOff /\ ext = ExtOff /\ dbg = DbgOff /\ runs = RunsOff
    \/ HttpInit /\ seq = SeqOff /\ loop = LoopOff /\ par = ParOff
                /\ deleg = DelegOff /\ cea = CeaOff /\ ws = WsOff
                /\ da = DaOff /\ ext = ExtOff /\ dbg = DbgOff
                /\ runs = RunsOff
    \/ WsInit /\ seq = SeqOff /\ loop = LoopOff /\ par = ParOff
              /\ deleg = DelegOff /\ cea = CeaOff /\ http = HttpOff
              /\ da = DaOff /\ ext = ExtOff /\ dbg = DbgOff /\ runs = RunsOff
    \/ DaInit /\ seq = SeqOff /\ loop = LoopOff /\ par = ParOff
              /\ deleg = DelegOff /\ cea = CeaOff /\ http = HttpOff
              /\ ws = WsOff /\ ext = ExtOff /\ dbg = DbgOff /\ runs = RunsOff
    \/ ExtInit /\ seq = SeqOff /\ loop = LoopOff /\ par = ParOff
               /\ deleg = DelegOff /\ cea = CeaOff /\ http = HttpOff
               /\ ws = WsOff /\ da = DaOff /\ dbg = DbgOff /\ runs = RunsOff
    \/ DbgInit /\ seq = SeqOff /\ loop = LoopOff /\ par = ParOff
               /\ deleg = DelegOff /\ cea = CeaOff /\ http = HttpOff
               /\ ws = WsOff /\ da = DaOff /\ ext = ExtOff /\ runs = RunsOff
    \/ RunsInit /\ seq = SeqOff /\ loop = LoopOff /\ par = ParOff
                /\ deleg = DelegOff /\ cea = CeaOff /\ http = HttpOff
                /\ ws = WsOff /\ da = DaOff /\ ext = ExtOff /\ dbg = DbgOff

Next ==
    \/ SeqNext \/ LoopNext \/ ParNext \/ DelegNext
    \/ CeaNext \/ HttpNext \/ WsNext \/ DaNext
    \/ ExtNext \/ DbgNext \/ RunsNext

Spec == Init /\ [][Next]_vars

(***************************************************************************)
(*                        Properties: SequentialAgent                      *)
(***************************************************************************)

RECURSIVE SumCalls(_, _)
\* calls[1] + ... + calls[k]
SumCalls(calls, k) == IF k = 0 THEN 0 ELSE calls[k] + SumCalls(calls, k - 1)

Min(a, b) == IF a <= b THEN a ELSE b

\* positions of seq.results holding a Result with status 'error'
SeqErrorAt == {k \in 1..Len(seq.results) : seq.results[k].result.status = "error"}

\* C1: as soon as a sub-agent k has returned status 'error' and no sub-agent
\* before it did, SequentialAgent.run is over: sub-agents 1..k were invoked
\* once each in declared order, sub-agents k+1..n never, and the Result is
\* status 'error' with failed_at = the name of sub-agent k and exactly k
\* results.
C1_SequentialShortCircuit ==
    SeqErrorAt # {} =>
        LET k == CHOOSE k \in SeqErrorAt : \A j \in SeqErrorAt : k <= j
        IN /\ seq.pc = "done"
           /\ seq.order = [i \in 1..k |-> i]
           /\ \A i \in 1..MaxAgents : seq.calls[i] = IF i <= k THEN 1 ELSE 0
           /\ seq.ret.status = "error"
           /\ seq.ret.failed_at = AgentName(k)
           /\ Len(seq.ret.results) = k
           /\ \A i \in 1..k : seq.ret.results[i].agent = AgentName(i)

\* C1 witness: the second of three sub-agents failed and the run is over
C1_Witness ==
    /\ seq.n = 3
    /\ seq.pc = "done"
    /\ seq.ret.status = "error"
    /\ Len(seq.results) = 2
    /\ seq.results[1].result.status = "blocked"

(***************************************************************************)
(*                          Properties: LoopAgent                          *)
(***************************************************************************)

\* a Result that carries an escalate signal: the nested event_actions
\* mapping with escalate true, or the legacy escalate / terminate flag
HasSignal(result) ==
    result.event_actions = "dict_escalate" \/ result.escalate \/ result.terminate

LoopLast == Last(loop.results)

\* the run has returned and the Result appended last has escalate = true; it
\* came from the sub-agent at position loop.idx, on its k-th call, where k is
\* the iteration
LoopEscalated ==
    /\ loop.pc = "done"
    /\ loop.results # <<>>
    /\ LoopLast.result.escalate
    /\ LoopLast.iteration < loop.max_iterations

\* C2 as stated: when a sub-agent returns escalate = true on its k-th call
\* (k < max_iterations), the loop ends after exactly k iterations with reason
\* 'escalate_signal' and every sub-agent was called exactly k times.
C2_Original ==
    LoopEscalated =>
        /\ loop.ret.iterations = LoopLast.iteration
        /\ loop.ret.termination_reason = "escalate_signal"
        /\ \A i \in 1..loop.n : loop.calls[i] = LoopLast.iteration

\* C2 amended: a Result with escalate = true ends the run at once; when it
\* came from the sub-agent at position p on its k-th call (k <
\* max_iterations), the loop reports k iterations with reason
\* 'escalate_signal', the sub-agents at positions 1..p were called exactly k
\* times and those after p exactly k - 1 times.
C2_EscalateEndsAtOnce ==
    /\ (loop.results # <<>> /\ LoopLast.result.escalate) => loop.pc = "done"
    /\ LoopEscalated =>
        /\ LoopLast.agent = AgentName(loop.idx)
        /\ loop.ret.iterations = LoopLast.iteration
        /\ loop.ret.termination_reason = "escalate_signal"
        /\ \A i \in 1..loop.n :
             loop.calls[i] = IF i <= loop.idx THEN LoopLast.iteration
                             ELSE LoopLast.iteration - 1

\* C2 witness: the first of three sub-agents escalated on its second call
C2_Witness ==
    /\ LoopEscalated
    /\ loop.n = 3
    /\ loop.idx = 1
    /\ LoopLast.iteration = 2
    /\ ~LoopLast.result.terminate
    /\ LoopLast.result.event_actions = "absent"

\* C3 as stated: with max_iterations >= 1 the run never returns before every
\* sub-agent has been invoked at least once.
C3_Original ==
    (loop.pc = "done" /\ loop.max_iterations >= 1) =>
        \A i \in 1..loop.n : loop.calls[i] >= 1

\* C3 amended: with max_iterations >= 1 the run never returns before the
\* first sub-agent has been invoked, and it returns before every sub-agent
\* has been invoked only when a termination signal was seen in iteration 1:
\* then it reports 1 iteration and reason 'escalate_signal' or
\* 'exit_loop_tool', the sub-agents up to the one whose Result was checked
\* last were invoked once and the ones after it not at all.
C3_FirstIteration ==
    (loop.pc = "done" /\ loop.max_iterations >= 1) =>
        /\ loop.n >= 1 => loop.calls[1] >= 1
        /\ (\E i \in 1..loop.n : loop.calls[i] = 0) =>
             /\ loop.ret.iterations = 1
             /\ loop.ret.termination_reason \in {"escalate_signal", "exit_loop_tool"}
             /\ HasSignal(LoopLast.result) \/ loop.exit_requested
             /\ Len(loop.results) = loop.idx
             /\ \A i \in 1..loop.n :
                  loop.calls[i] = IF i <= loop.idx THEN 1 ELSE 0

\* C3 witness: the run returned in iteration 1 on an exit_loop request, the
\* third sub-agent never invoked
C3_Witness ==
    /\ loop.pc = "done"
    /\ loop.n = 3
    /\ loop.max_iterations >= 1
    /\ loop.calls[3] = 0
    /\ loop.calls[2] = 1
    /\ loop.ret.termination_reason = "exit_loop_tool"

\* C4: when the run has returned, no Result carried a signal and exit_loop
\* was not requested, the Result is status 'completed' with iterations =
\* max_iterations and reason 'max_iterations_reached', and every sub-agent
\* was called exactly max_iterations times.
C4_MaxIterations ==
    (/\ loop.pc = "done"
     /\ ~loop.exit_requested
     /\ \A j \in 1..Len(loop.results) : ~HasSignal(loop.results[j].result)) =>
        /\ loop.ret.status = "completed"
        /\ loop.ret.iterations = loop.max_iterations
        /\ loop.iteration_count = loop.max_iterations
        /\ loop.ret.termination_reason = "max_iterations_reached"
        /\ \A i \in 1..loop.n : loop.calls[i] = loop.max_iterations
        /\ Len(loop.ret.results) = loop.n * loop.max_iterations

\* C4 witness: three sub-agents, three iterations, nine quiet Results
C4_Witness ==
    /\ loop.pc = "done"
    /\ loop.n = 3
    /\ loop.max_iterations = 3
    /\ loop.ret.termination_reason = "max_iterations_reached"
    /\ Len(loop.results) = 9

\* C5: a Result carrying an escalate signal ends the run with reason
\* 'escalate_signal' even when exit was requested; an exit request alone
\* ends it with reason 'exit_loop_tool'; and once a signal has been seen no
\* further sub-agent is invoked: the signalling Result is the last one, the
\* run is over, and every invocation made is in the results.
C5_SignalPriority ==
    /\ \A j \in 1..Len(loop.results) :
         HasSignal(loop.results[j].result) =>
            /\ j = Len(loop.results)
            /\ loop.pc = "done"
            /\ loop.ret.termination_reason = "escalate_signal"
    /\ (loop.exit_requested /\ loop.pc \notin {"idle", "await", "raised"}) =>
            /\ loop.pc = "done"
            /\ HasSignal(LoopLast.result)
                 \/ loop.ret.termination_reason = "exit_loop_tool"
    /\ loop.pc = "done" =>
            /\ SumCalls(loop.calls, loop.n) = Len(loop.results)
            /\ loop.ret.results = loop.results

\* C5 witness: the nested escalate signal and the exit request came together
C5_Witness ==
    /\ loop.pc = "done"
    /\ loop.exit_requested
    /\ loop.n = 3
    /\ Len(loop.results) = 2
    /\ LoopLast.result.event_actions = "dict_escalate"
    /\ ~LoopLast.result.escalate
    /\ ~LoopLast.result.terminate
    /\ loop.ret.termination_reason = "escalate_signal"

(***************************************************************************)
(*                        Properties: ParallelAgent                        *)
(***************************************************************************)

\* the entry of the returned results list at position i is the one of the
\* i-th declared sub-agent: its name, and its own outcome (an error entry
\* when its run raised, its Result otherwise)
ParEntryIsOf(i) ==
    LET e == par.ret.results[i]
        o == par.outcome[i]
    IN /\ e.agent = AgentName(i)
       /\ o.kind = "raise" => (e.status = "error" /\ e.result = None)
       /\ o.kind = "return" => (e.status = None /\ e.result = o)

\* C6: whatever the order in which the sub-agents completed, the returned
\* results list has exactly one entry per sub-agent, and entry i carries the
\* name and the outcome of the i-th declared sub-agent.
C6_DeclaredOrder ==
    par.pc = "done" =>
        /\ Len(par.ret.results) = par.n
        /\ Len(par.completed) = par.n
        /\ \A i \in 1..par.n : ParEntryIsOf(i)

\* C6 witness: three sub-agents completed in the order 3, 1, 2 with
\* outcomes that differ
C6_Witness ==
    /\ par.pc = "done"
    /\ par.n = 3
    /\ par.completed = <<3, 1, 2>>
    /\ par.outcome[1].status = "success"
    /\ par.outcome[2].status = "error"
    /\ par.outcome[3].kind = "raise"

ParRaisers == {i \in 1..par.n : par.outcome[i].kind = "raise"}

\* C7: ParallelAgent.run never raises; and when it has returned and some
\* sub-agent raised, every sub-agent was run exactly once, to completion,
\* every sub-agent that did not raise has its Result in the returned list,
\* and each raising one is an entry with status 'error' under its own name.
C7_RaiseIsIsolated ==
    /\ par.pc # "raised"
    /\ (par.pc = "done" /\ ParRaisers # {}) =>
         /\ par.ret.status = "success"
         /\ \A i \in 1..par.n :
              /\ par.calls[i] = 1
              /\ par.task[i] = "finished"
              /\ par.ret.results[i].agent = AgentName(i)
              /\ i \in ParRaisers => par.ret.results[i].status = "error"
              /\ i \notin ParRaisers =>
                   /\ par.ret.results[i].status # "error"
                   /\ par.ret.results[i].result = par.outcome[i]

\* C7 witness: the first of three sub-agents raised before the others were
\* done, and the run returned
C7_Witness ==
    /\ par.pc = "done"
    /\ par.n = 3
    /\ ParRaisers = {1}
    /\ par.completed[1] = 1
    /\ par.outcome[2].status = "success"

(***************************************************************************)
(*                    Properties: delegation and transfer                  *)
(***************************************************************************)

\* every record handed to add_delegation so far, in order
IdeAppended == [k \in 1..deleg.add_delegation_calls |-> IdeDelegation(k)]

LastDelegationFailed ==
    /\ deleg.session = "adk"
    /\ deleg.pc = "idle"
    /\ deleg.last.op = "delegate"
    /\ deleg.last.outcome.kind = "raise" \/ deleg.last.outcome.status = "error"

\* C9: a delegate call whose target failed appended one record with status
\* 'failed' and returned a Result with status 'error'.
C9_FailedDelegation ==
    LastDelegationFailed =>
        /\ Len(deleg.delegations) = deleg.delegate_calls
        /\ Last(deleg.delegations).to = deleg.last.target
        /\ Last(deleg.delegations).status = "failed"
        /\ deleg.ret.status = "error"

\* C10: a transfer call appends exactly one transfer record, naming the
\* target, to the session's transfers log and points active_agent at the
\* target; it invokes no run and leaves the delegations log alone; and at
\* any time active_agent is the target of the most recent transfer record.
\* (add_transfer likewise appends the record and moves active_agent.)
C10_Transfer ==
    /\ [](deleg.session = "adk" =>
            /\ Len(deleg.transfers) = deleg.transfer_calls
            /\ deleg.transfers # <<>> =>
                 deleg.active_agent = Last(deleg.transfers).to)
    /\ []((deleg.session = "ide" /\ deleg.transfers # <<>>) =>
            deleg.active_agent = Last(deleg.transfers).to_agent)
    /\ [][(deleg.session = "adk"
            /\ deleg'.transfer_calls = deleg.transfer_calls + 1) =>
              /\ Len(deleg'.transfers) = Len(deleg.transfers) + 1
              /\ SubSeq(deleg'.transfers, 1, Len(deleg.transfers)) = deleg.transfers
              /\ Last(deleg'.transfers).to = deleg'.last.target
              /\ Last(deleg'.transfers).from = Parent
              /\ deleg'.active_agent = deleg'.last.target
              /\ deleg'.ret.status = "transferred"
              /\ deleg'.runs = deleg.runs
              /\ deleg'.delegations = deleg.delegations
              /\ deleg'.pc = deleg.pc]_vars
    /\ [][(deleg.session = "ide"
            /\ deleg'.add_transfer_calls = deleg.add_transfer_calls + 1) =>
              /\ Last(deleg'.transfers) = IdeTransfer(deleg'.add_transfer_calls)
              /\ deleg'.delegations = deleg.delegations]_vars

\* C10 witness: a transfer to one agent, then a transfer to the other while
\* a delegation is suspended
C10_Witness ==
    /\ deleg.session = "adk"
    /\ deleg.pc = "await"
    /\ Len(deleg.transfers) = 2
    /\ deleg.transfers[1].to = "da"
    /\ deleg.transfers[2].to = "cea"
    /\ deleg.active_agent = "cea"
    /\ deleg.last.op = "transfer"

(* ------------------------------- C11 ----------------------------------- *)

\* the message the validation order of the interface gives a rejected code
CeaExpectedError(code) ==
    IF ~code.present \/ code.len = 0 THEN "missing 'code'"
    ELSE IF code.len > max_code_len THEN "code too large"
    ELSE "forbidden code pattern detected"

CeaInvalid(code) ==
    \/ ~code.present
    \/ code.len = 0
    \/ code.len > max_code_len
    \/ \E i \in 1..Len(code.words) :
           \/ code.words[i] \in {"subprocess", "socket", "shutil.rmtree"}
           \/ i < Len(code.words) /\ code.words[i] = "import"
                                   /\ code.words[i + 1] = "os"

CeaInCall == cea.pc \in {"await", "done", "cancelled"}

\* C11: a request whose code is missing or empty, longer than max_code_len
\* or denylisted makes CodeExecutionAgent.run return status 'error' with the
\* message of the first failing check (missing code, then code too large,
\* then forbidden code pattern), and during that call no executor is
\* constructed (or tried) and none is invoked.
C11_RejectedBeforeSandbox ==
    (CeaInCall /\ CeaInvalid(cea.request)) =>
        /\ cea.pc = "done"
        /\ cea.ret.status = "error"
        /\ cea.ret.error = CeaExpectedError(cea.request)
        /\ cea.attempts = 0 /\ cea.built = 0 /\ cea.invoked = 0

\* a code that is both too large and denylisted was rejected as too large,
\* by an agent that could have constructed its executor
C11_Witness ==
    /\ cea.pc = "done"
    /\ cea.request.len > max_code_len
    /\ cea.request.words = <<"import", "os">>
    /\ cea.env = "vertex" /\ cea.executor = None
    /\ cea.ret = CeaError("code too large")

(* ------------------------------- C12 ----------------------------------- *)

\* hia.run was called for the current /orchestrate request and has ended
HiaEnded == http.entry = "orchestrate" /\ http.hia_runs = 1
            /\ http.hia.pc \in {"returned", "raised"}

\* C12: for a request with action 'execute_code', HumanInteractionAgent.run
\* runs the Code Execution Agent exactly once and returns a Result (it does
\* not raise) without having classified the request.
C12_ExecuteCodeDelegated ==
    (HiaEnded /\ http.request.action = "execute_code") =>
        /\ http.hia.target_runs["cea"] = 1
        /\ http.hia.pc = "returned"
        /\ http.hia.path = "execute_code"

(* ------------------------------- C13 ----------------------------------- *)

\* C13: SequentialAgent.run, LoopAgent.run and ParallelAgent.run never let
\* an exception of a sub-agent escape: a run that has ended has returned a
\* Result with a status.
C13_NoExceptionEscapes ==
    /\ seq.pc # "raised" /\ loop.pc # "raised"
    /\ seq.pc = "done" => seq.ret.status # None
    /\ loop.pc = "done" => loop.ret.status # None
    /\ par.pc = "done" => par.ret.status # None

(* ------------------------------- C14 ----------------------------------- *)

\* C14: a cancellation goes up through every layer as a cancellation: a run
\* of ParallelAgent that has returned holds no cancelled sub-agent among its
\* entries, and a cancelled hia.run or code_executor.run leaves the HTTP
\* handler cancelled, with no mapping returned.
C14_CancellationPropagates ==
    /\ par.pc = "done" =>
          \A i \in ParAgents : par.outcome[i].kind # "cancel"
    /\ http.hia.pc = "cancelled" => http.pc = "cancelled" /\ http.ret = NoRet
    /\ http.cea.pc = "cancelled" => http.pc = "cancelled" /\ http.ret = NoRet

(* ------------------------------- C15 ----------------------------------- *)

\* /orchestrate has returned a mapping for a request the pre-check let pass
OrchestrateAnswered ==
    http.entry = "orchestrate" /\ http.pc = "done" /\ ~http.ret.blocked

\* C15: on every path through HumanInteractionAgent.run and /orchestrate
\* (direct, execute_code, delegated, LLM-backed, internal failure) the
\* mapping returned to the caller has a 'response' that is a string.
C15_ResponseAlways == OrchestrateAnswered => http.ret.response # None

(* ------------------------------- C16 ----------------------------------- *)

Flagged(request) ==
    request.message \cap {"rm -rf", "format c:", "ignore previous", "email",
                          "secret", "oversize"} # {}

\* /orchestrate is handling, or has answered, its current request
OrchestrateInHand == http.entry = "orchestrate" /\ http.pc # "idle"

\* C17: a request that the pre-check of /orchestrate flags is answered at
\* once with the blocked mapping, and HumanInteractionAgent.run is not
\* called for it, so nothing is delegated.
C17_BlockedBeforeOrchestrator ==
    (OrchestrateInHand /\ Flagged(http.request)) =>
        /\ http.pc = "done"
        /\ http.ret.blocked /\ http.ret.reason # None
        /\ http.hia_runs = 0 /\ http.cea_runs = 0

\* a flagged execute_code request was blocked
C17_Witness ==
    /\ http.entry = "orchestrate" /\ http.pc = "done"
    /\ http.request.action = "execute_code"
    /\ http.request.message = {"rm -rf", "email"}
    /\ http.ret = Blocked("dangerous input detected")
    /\ http.hia_runs = 0

(* ------------------------------- C18 ----------------------------------- *)

\* C18: on every entry path that reaches an agent (HTTP /orchestrate and
\* /execute, WebSocket user_message, orchestrate, execute_code and
\* terminal_execute) HumanInteractionAgent.run is not called for a request
\* that before_model_callback flags, and CodeExecutionAgent.run is not
\* called for a code that before_tool_callback flags.
C18_PreFilterOnEveryPath ==
    /\ http.hia_runs > 0 => ~Flagged(http.request)
    /\ http.cea_runs > 0 => before_tool_callback(http.code) = None
    /\ ws.hia_runs > 0 => ~Flagged(ws.request)
    /\ ws.cea_runs > 0 => before_tool_callback(ws.code) = None

(* ------------------------------- C19 ----------------------------------- *)

TerminalTypes == {"result", "error"}

\* one ack, then progress messages, then at most one terminal message and
\* nothing after it
InOrder(sent) ==
    \A i \in 1..Len(sent) :
        IF i = 1 THEN sent[i] = "ack"
        ELSE /\ sent[i] \in {"progress"} \cup TerminalTypes
             /\ sent[i - 1] \notin TerminalTypes

EndsWithTerminal(sent) == Len(sent) >= 2 /\ Last(sent) \in TerminalTypes

IsDevelopment(request) ==
    /\ request.task_type \in {"code_generation", "development"}
    /\ request.action # "execute_code"

\* the run of agent h has ended in the Delegated state: the Developing Agent
\* was run exactly once and run() returned
Delegated(h) ==
    h.path = "delegated" /\ h.target_runs["da"] = 1 /\ h.pc = "returned"

\* C20: whenever task_type is 'code_generation' or 'development' (and the
\* action is not 'execute_code'), HumanInteractionAgent.run, given a
\* Developing Agent, dispatches the request to it exactly once and returns,
\* whatever the message text and whether or not an LLM backend is there.
C20_DevelopmentIsDelegated ==
    /\ (HiaEnded /\ http.hia.has_da /\ IsDevelopment(http.request)) =>
          Delegated(http.hia)
    /\ (ws.hia_runs = 1 /\ ws.hia.pc \in {"returned", "raised"}
           /\ ws.hia.has_da /\ IsDevelopment(ws.request)) =>
          Delegated(ws.hia)

(* ------------------------------- C21 ----------------------------------- *)

\* how many times sub-agent i was invoked in iteration k
InvokedIn(i, k) ==
    Cardinality({j \in 1..Len(loop.results) :
                    /\ loop.results[j].agent = AgentName(i)
                    /\ loop.results[j].iteration = k})

\* C21: at every point of a LoopAgent.run invocation, whatever way it ends,
\* each sub-agent has been invoked at most once per iteration and at most
\* max_iterations times in all, and the iterations count that is reported
\* does not exceed max_iterations.
C21_InvocationsBounded ==
    loop.pc # "off" =>
        /\ loop.iteration_count <= loop.max_iterations
        /\ \A i \in 1..loop.n :
              /\ loop.calls[i] <= loop.iteration_count
              /\ loop.calls[i] <= loop.max_iterations
              /\ \A k \in 1..loop.max_iterations : InvokedIn(i, k) <= 1
        /\ loop.pc = "done" => loop.ret.iterations <= loop.max_iterations

\* a run of two sub-agents was ended by an exit request in its last
\* iteration, the first sub-agent having been invoked max_iterations times
C21_Witness ==
    /\ loop.pc = "done"
    /\ loop.n = 2 /\ loop.max_iterations = 2
    /\ loop.ret.termination_reason = "exit_loop_tool"
    /\ loop.calls = [NoCalls EXCEPT ![1] = 2, ![2] = 1]
    /\ InvokedIn(1, 2) = 1

(* ------------------------------- C22 ----------------------------------- *)

\* the sub-agents whose run was started and has not ended yet
SeqInFlight == IF seq.pc = "await" THEN 1 ELSE 0

LoopInFlight == IF loop.pc = "await" THEN 1 ELSE 0

\* C22: SequentialAgent.run and each iteration of LoopAgent.run start their
\* sub-agents in declared order, each one only once all those started before
\* it have returned; and when no sub-agent returns an error, SequentialAgent
\* invokes each sub-agent exactly once and returns status 'success' with one
\* results entry per sub-agent, in that order.
C22_OneAtATimeInOrder ==
    /\ seq.pc \notin {"off", "raised"} =>
          /\ \A k \in 1..Len(seq.order) : seq.order[k] = k
          /\ Len(seq.order) = Len(seq.results) + SeqInFlight
          /\ \A k \in 1..Len(seq.results) : seq.results[k].agent = AgentName(k)
    /\ (seq.pc = "done" /\ SeqErrorAt = {}) =>
          /\ seq.ret.status = "success"
          /\ Len(seq.ret.results) = seq.n
          /\ \A i \in 1..seq.n : /\ seq.calls[i] = 1
                                /\ seq.ret.results[i].agent = AgentName(i)
    /\ loop.pc \notin {"off", "raised"} /\ loop.n > 0 =>
          /\ SumCalls(loop.calls, loop.n) = Len(loop.results) + LoopInFlight
          /\ \A j \in 1..Len(loop.results) :
                /\ loop.results[j].agent = AgentName(((j - 1) % loop.n) + 1)
                /\ loop.results[j].iteration = ((j - 1) \div loop.n) + 1

\* three sub-agents ran one after the other and none returned an error
C22_Witness ==
    /\ seq.pc = "done" /\ seq.n = 3
    /\ seq.order = <<1, 2, 3>>
    /\ seq.ret.status = "success"

(* ------------------------------- C23 ----------------------------------- *)

\* C23: SequentialAgent.run, LoopAgent.run and ParallelAgent.run leave the
\* mapping the caller passed in as it was, at every step and after the
\* return: previous_result and state are only ever set on mappings that run
\* built itself, and a sub-agent is handed either such a mapping or the
\* caller's own, untouched.
C23_RequestNotMutated ==
    /\ seq.request = seq.request0
    /\ ~seq.current_request.own => seq.current_request.map = seq.request0
    /\ loop.request = loop.request0
    /\ ~loop.current_request.own => loop.current_request.map = loop.request0
    /\ par.request = par.request0
    /\ \A i \in 1..MaxAgents :
          ~par.passed[i].own /\ par.passed[i].map = par.request0

\* a pipeline of two has returned: the second sub-agent was handed a new
\* mapping with previous_result and state set, the caller's has neither
C23_Witness ==
    /\ seq.pc = "done" /\ seq.n = 2 /\ Len(seq.results) = 2
    /\ seq.request = [task |-> CallerKey, previous_result |-> AbsentKey,
                      state |-> AbsentKey]
    /\ seq.current_request.own
    /\ seq.current_request.map.previous_result # AbsentKey

(* ------------------------------- C28 ----------------------------------- *)

\* the mapping handed to the sub-agent invocation now in flight, when it is
\* not the first of the run
LoopThreaded == loop.pc = "await" /\ Len(loop.results) >= 1

\* C28 as stated: the request handed to every invocation after the first is
\* the caller's with previous_result set to the Result of the invocation just
\* before it, and it is the mapping SequentialAgent would have built there.
C28_Original ==
    LoopThreaded =>
        loop.current_request =
            SeqThread(loop.request, Alias(loop.request0),
                      Len(loop.results)).current_request

\* C28, amended: the request handed to every invocation after the first is a
\* new mapping that holds the Result of the invocation just before it (the
\* last entry of results, across the iteration boundary too) under
\* previous_result and every other key exactly as the caller gave it; the
\* first invocation is handed the caller's own mapping.  Unlike the
\* sequential pipeline, the loop does not set the state key.
C28_PreviousResultThreaded ==
    /\ LoopThreaded =>
          /\ loop.current_request.own
          /\ loop.current_request.map =
                 [loop.request0 EXCEPT
                      !.previous_result = ResultKey(Len(loop.results))]
          /\ loop.current_request.map.state = loop.request0.state
    /\ loop.pc = "await" /\ Len(loop.results) = 0 =>
          loop.current_request = Alias(loop.request0)

\* the first sub-agent of the second iteration is running on the Result of
\* the last sub-agent of the first
C28_Witness ==
    /\ LoopThreaded /\ loop.n = 2 /\ loop.iteration_count = 2 /\ loop.idx = 1
    /\ loop.current_request.map.previous_result = ResultKey(2)
    /\ loop.results[2].iteration = 1

(* ------------------------------- C24 ----------------------------------- *)

\* positions in store_calls of the save_artifact calls that failed: the call
\* raised, or returned a mapping with status 'error'
DaFailedSaves ==
    {j \in 1..Len(da.outcomes) :
        da.outcomes[j].kind = "raise" \/ da.outcomes[j].status = "error"}

\* C24: once _save_web_assets has returned: with a missing session_id or a
\* missing or empty assets list the Result has status 'error' and the
\* artifact store was never called; otherwise the store was called once per
\* asset in list order up to and including the first asset whose save
\* failed, and on such a failure the Result has status 'error' and names
\* that asset.
C24_SaveWebAssets ==
    da.pc = "done" =>
        IF \/ da.session_id = "falsy"
           \/ da.assets_kind = "missing"
           \/ da.assets = <<>>
        THEN da.ret.status = "error" /\ da.store_calls = <<>>
        ELSE /\ \A j \in 1..Len(da.store_calls) : da.store_calls[j] = j
             /\ IF DaFailedSaves = {}
                THEN Len(da.store_calls) = Len(da.assets)
                ELSE \E j \in DaFailedSaves :
                        /\ \A k \in DaFailedSaves : j <= k
                        /\ Len(da.store_calls) = j
                        /\ da.ret.status = "error"
                        /\ da.ret.asset = da.store_calls[j]

(* ------------------------------- C25 ----------------------------------- *)

\* C25: whenever the execution did not complete within timeout_seconds, run
\* has returned (it has not raised), it gave up waiting at the timeout, and
\* its Result has status 'error' and error 'execution timed out'.
C25_TimeoutReported ==
    cea.pc # "off" /\ cea.timing # "in_time" =>
        /\ cea.pc = "done"
        /\ cea.timing = "cut_off"
        /\ cea.ret.status = "error"
        /\ cea.ret.error = "execution timed out"

(* ------------------------------- C26 ----------------------------------- *)

\* the six dictionary keys of the stated order
StatedKeys == <<"response", "text", "content", "message", "output", "result">>

RECURSIVE StatedText(_)
RECURSIVE FirstNonEmpty(_, _)

\* the first text of the sequence that is not the empty string
FirstNonEmpty(texts, i) ==
    IF i > Len(texts) THEN ""
    ELSE IF texts[i] # "" THEN texts[i]
    ELSE FirstNonEmpty(texts, i + 1)

\* the candidate a value stored under a key stands for: a string itself, a
\* nested value what the stated order finds in it
StatedCandidate(d, key) ==
    IF key \notin DOMAIN d THEN ""
    ELSE IF d[key].type = "str" THEN d[key].s
    ELSE StatedText(d[key])

\* candidate (1): the session-state output keys
StatedSessionText(d) ==
    IF /\ "session" \in DOMAIN d /\ d["session"].type = "dict"
       /\ "state" \in DOMAIN d["session"].d
       /\ d["session"].d["state"].type = "dict"
    THEN LET state == d["session"].d["state"].d
         IN FirstNonEmpty([i \in 1..Len(StateKeys) |->
                              StatedCandidate(state, StateKeys[i])], 1)
    ELSE ""

\* candidate (4): the texts nested in event_actions
StatedEventActionsText(d) ==
    IF "event_actions" \in DOMAIN d /\ d["event_actions"].type = "dict"
    THEN FirstNonEmpty([i \in 1..Len(EventActionsKeys) |->
                           StatedCandidate(d["event_actions"].d,
                                           EventActionsKeys[i])], 1)
    ELSE ""

\* the text the stated priority order yields for a result
StatedText(result) ==
    CASE result.type = "none" -> ""
      [] result.type = "str" -> result.s
      [] result.type = "object" -> ""
      [] result.type = "dict" ->
            FirstNonEmpty(
                <<StatedSessionText(result.d)>>
                \o [i \in 1..Len(StatedKeys) |->
                       StatedCandidate(result.d, StatedKeys[i])]
                \o <<StatedEventActionsText(result.d)>>,
                1)

\* C26: the text _extract_response_text returns is the first non-empty
\* candidate of the order session-state output key, direct string, the keys
\* response, text, content, message, output, result, nested event_actions,
\* stringified result; the stringified result of a raw object or of a
\* mapping is rejected, so such a result without any candidate yields the
\* empty string.
C26_FirstCandidateInOrder ==
    ext.pc = "done" => ext.text = StatedText(ext.result)

(* ------------------------------- C27 ----------------------------------- *)

\* the breakpoints of a list that are on the given line, in list order
OnLine(breakpoints, line) ==
    LET Is(bp) == bp.line = line
    IN SelectSeq(breakpoints, Is)

\* C27: after every set_breakpoint(line, file) the list is the list before
\* it with that one breakpoint added at the end, and the Result has
\* breakpoint_set true and the whole list; after every
\* remove_breakpoint(line) the list has no breakpoint on that line, and the
\* breakpoints of every other line are those it had before, in their order,
\* and nothing else.
C27_BreakpointList ==
    dbg.pc = "done" =>
        /\ dbg.ret.status = "success"
        /\ dbg.ret.breakpoints = dbg.breakpoints
        /\ dbg.request.action = "set_breakpoint" =>
              /\ Len(dbg.breakpoints) = Len(dbg.before) + 1
              /\ SubSeq(dbg.breakpoints, 1, Len(dbg.before)) = dbg.before
              /\ Last(dbg.breakpoints) = [line |-> dbg.request.line,
                                          file |-> dbg.request.file]
              /\ dbg.ret.breakpoint_set
        /\ dbg.request.action = "remove_breakpoint" =>
              /\ \A k \in 1..Len(dbg.breakpoints) :
                    dbg.breakpoints[k].line # dbg.request.line
              /\ \A line \in Lines \ {dbg.request.line} :
                    OnLine(dbg.breakpoints, line) = OnLine(dbg.before, line)
              /\ Len(dbg.breakpoints) =
                     Len(dbg.before)
                         - Len(OnLine(dbg.before, dbg.request.line))

\* breakpoints were set on lines 10, 20 and 10 again; removing line 10 has
\* left the one on line 20
C27_Witness ==
    /\ dbg.pc = "done" /\ dbg.request.action = "remove_breakpoint"
    /\ dbg.request.line = 10
    /\ Len(dbg.before) = 3 /\ dbg.before[1].line = 10
    /\ dbg.before[2].line = 20 /\ dbg.before[3].line = 10
    /\ dbg.breakpoints = <<dbg.before[2]>>

(* ------------------------------- C29 ----------------------------------- *)

\* C29: an exit_loop request made inside a run invocation makes that
\* invocation return with termination_reason 'exit_loop_tool' as soon as
\* the sub-agent it was awaiting returns without escalating, whatever the
\* other invocation of the same LoopAgent does meanwhile; and an invocation
\* returns with 'exit_loop_tool' only if the request was made inside it.
C29_ExitRequestIsPerInvocation ==
    \A r \in Invocations :
        /\ runs.inv[r].owed =>
              /\ runs.inv[r].pc = "done"
              /\ runs.inv[r].termination_reason = "exit_loop_tool"
        /\ runs.inv[r].termination_reason = "exit_loop_tool" =>
              runs.inv[r].asked

(* ------------------------------- C30 ----------------------------------- *)

\* C30: whenever ParallelAgent.run has returned, its status is 'success'
\* and its results list has one entry per sub-agent, whatever the branches
\* did, even if each of them raised or returned status 'error'; an entry
\* has status 'error' only if its sub-agent raised, and a sub-agent that
\* returned a Result, status 'error' included, has an entry without a
\* status that holds this Result.
C30_SuccessWhateverTheBranches ==
    par.pc = "done" =>
        /\ par.ret.status = "success"
        /\ Len(par.ret.results) = par.n
        /\ \A i \in 1..par.n :
              /\ par.ret.results[i].status = "error" =>
                    par.outcome[i].kind = "raise"
              /\ par.outcome[i].kind = "return" =>
                    /\ par.ret.results[i].status = None
                    /\ par.ret.results[i].result = par.outcome[i]

\* of three sub-agents two raised and one returned status 'error'; run
\* has returned
C30_Witness ==
    /\ par.pc = "done" /\ par.n = 3 /\ par.ret.status = "success"
    /\ par.outcome[1].kind = "raise" /\ par.outcome[3].kind = "raise"
    /\ par.outcome[2] = [kind |-> "return", status |-> "error"]
    /\ par.ret.results[2].result.status = "error"
    /\ par.ret.results[1].status = "error"

====
